---------------------------- MODULE Spec2Model ----------------------------
(***************************************************************************)
(* A model of the unreal-utxt-converter binary codec:                      *)
(*   - UAssetParser  (src/src/uasset-parser-fixed.ts, lines 108-1065)      *)
(*   - UAssetWriter  (src/src/uasset-parser-fixed.ts, lines 1134-1754)     *)
(*   - PropertySerializer (src/src/property-serializer.ts)                 *)
(*                                                                         *)
(* Buffers are sequences of bytes (0..255).  JavaScript strings are        *)
(* sequences of UTF-16 code units (numbers).  An unsigned 32-bit value is  *)
(* the tuple of its four base-256 digits, most significant first, because  *)
(* TLC integers are 32-bit signed.                                         *)
(***************************************************************************)
EXTENDS Integers, Sequences, FiniteSets, TLC

VARIABLES
    \* ---- the file being converted and how it was made
    given,            \* what the file under test was built from
    \* ---- UAssetParser (one instance per converted file)
    buffer,           \* this.buffer
    offset,           \* this.offset
    useLittleEndian,  \* this.useLittleEndian
    summary,          \* this.summary ([null |-> TRUE] while null)
    nameMap,          \* this.nameMap
    imports,          \* this.imports
    exports,          \* this.exports
    ppc,              \* position inside parse() / convertToUTXT()
    perr,             \* the exception parse() threw ("" while none)
    packageName,      \* convertToUTXT: packageName
    expI,             \* convertToUTXT: loop index i
    utxt,             \* convertToUTXT: the document under construction
    emitted,          \* convertToUTXT: [exp, key, data] of each export processed
    parseRet,         \* what parse() returned ([null |-> TRUE] before)
    convRet,          \* convertUAssetToUTXT: return value ("none" before)
    outFile,          \* the .utxt file written ([exists |-> FALSE] if none)
    \* ---- UAssetWriter and its BufferWriter
    wdoc,             \* utxtData
    wnames,           \* this.nameMap, keys in index order
    wimports,         \* this.importMap, keys in insertion order
    wbuf,             \* writer.buffer (content)
    woff,             \* writer.offset
    wpc,              \* position inside convertToUAsset() / write()
    wi,               \* the export loop index of writeExportTable
    wpos,             \* exportOffsetPositions
    wtab,             \* nameTableOffset, importTableOffset, exportTableOffset
    wlog,             \* what was serialised: names, imports, exports
    wout,             \* the .uasset file written ([exists |-> FALSE] if none)
    wret,             \* convertToUAsset: return value ("none" before)
    reparse,          \* UAssetParser.parse on the written file
    \* ---- one PropertySerializer
    pbuf,             \* this.buffer
    pnames,           \* this.nameMap
    poff,             \* this.offset
    pstate,           \* "ExpectTag", "ReadValue", "Terminal", "Hung", "Idle"
    ptag,             \* the tag readPropertyTag returned
    pprops,           \* properties
    porder,           \* [name, at] of each tag decoded, in decoding order
    pstruct,          \* the last generic struct decoded
    pend,             \* why the loop ended ("" while running)
    pval,             \* the last value read: where, its tag, what came of it
    \* ---- name references
    nref,             \* the reference being resolved: table, index, instance
    nres,             \* what each reader gave for it
    \* ---- cross references and strings
    xref,             \* a cross-reference value with the tables it points into
    xres,             \* what each resolver gave for it
    fstr,             \* a string given to writeFString
    fres              \* the bytes written and what each reader read from them

parserVars == <<buffer, offset, useLittleEndian, summary, nameMap, imports,
                exports, ppc, perr, packageName, expI, utxt, emitted,
                parseRet, convRet, outFile>>

writerVars == <<wdoc, wnames, wimports, wbuf, woff, wpc, wi, wpos, wtab, wlog,
                wout, wret, reparse>>

propVars == <<pbuf, pnames, poff, pstate, ptag, pprops, porder, pstruct, pend,
              pval>>

nameVars == <<nref, nres, xref, xres, fstr, fres>>

vars == <<given, parserVars, writerVars, propVars, nameVars>>

-----------------------------------------------------------------------------
(* Arithmetic helpers.                                                     *)

Min(a, b) == IF a < b THEN a ELSE b
Max(a, b) == IF a > b THEN a ELSE b

\* Largest value a TLC integer holds; offsets saturate there.

\* Body applied to the value of v: the value is computed once, as the
\* statement `const x = v` of the code does
With(v, Body(_)) == Body(v)

MaxInt32 == 1073741823 + 1073741824
MinInt32 == (-1073741824) - 1073741824

SatAdd(a, b) ==
    IF b > 0 /\ a > MaxInt32 - b THEN MaxInt32
    ELSE IF b < 0 /\ a < MinInt32 - b THEN MinInt32
    ELSE a + b
SatMul(a, k) == IF a > MaxInt32 \div k THEN MaxInt32 ELSE a * k
\* Math.abs on a 32-bit value
Abs32(v) == IF v = MinInt32 THEN MaxInt32 ELSE IF v < 0 THEN -v ELSE v

-----------------------------------------------------------------------------
(* Node's Buffer primitives.                                               *)

\* Where a slice index lands: negative indexes count from the end.
SliceIdx(i, len) == IF i < 0 THEN Max(len + i, 0) ELSE Min(i, len)

\* Buffer.slice(start, end)
BufSlice(buf, start, end) ==
    LET s == SliceIdx(start, Len(buf))
        e == SliceIdx(end, Len(buf))
    IN  IF e <= s THEN <<>> ELSE SubSeq(buf, s + 1, e)

\* A fixed-width read of n bytes at off is in range (else RangeError).
InBuf(buf, off, n) == off >= 0 /\ off <= Len(buf) - n

\* The signed 32-bit value of four bytes, least significant first.
S32(b0, b1, b2, b3) ==
    b0 + 256 * b1 + 65536 * b2
       + 16777216 * (IF b3 >= 128 THEN b3 - 256 ELSE b3)

\* buffer.readInt32LE / readInt32BE
Int32At(buf, off, le) ==
    IF le THEN S32(buf[off + 1], buf[off + 2], buf[off + 3], buf[off + 4])
          ELSE S32(buf[off + 4], buf[off + 3], buf[off + 2], buf[off + 1])

\* buffer.readUInt32LE / readUInt32BE: the digits, most significant first.
UInt32At(buf, off, le) ==
    IF le THEN <<buf[off + 4], buf[off + 3], buf[off + 2], buf[off + 1]>>
          ELSE <<buf[off + 1], buf[off + 2], buf[off + 3], buf[off + 4]>>

\* buffer.readUInt16LE / readUInt16BE
UInt16At(buf, off, le) ==
    IF le THEN buf[off + 1] + 256 * buf[off + 2]
          ELSE buf[off + 2] + 256 * buf[off + 1]

\* buffer.readBigInt64LE / BE.  Values outside the 32-bit range saturate,
\* keeping their sign (the code only compares them with 0 and slices).
Int64At(buf, off, le) ==
    LET lo == IF le THEN off ELSE off + 4
        hi == IF le THEN off + 4 ELSE off
        hiV == Int32At(buf, hi, le)
        loV == Int32At(buf, lo, le)
    IN  IF hiV = 0 /\ loV >= 0 THEN loV
        ELSE IF hiV = -1 /\ loV < 0 THEN loV
        ELSE IF hiV >= 0 THEN MaxInt32 ELSE MinInt32

\* bytes.toString('ascii', 0, end): the high bit of each byte is cleared.
AsciiDecode(bytes, end) ==
    [i \in 1..Max(Min(end, Len(bytes)), 0) |-> bytes[i] % 128]

\* bytes.toString('utf16le', 0, end): an odd trailing byte is dropped.
Utf16Decode(bytes, end) ==
    [i \in 1..(Max(Min(end, Len(bytes)), 0) \div 2) |->
        bytes[2 * i - 1] + 256 * bytes[2 * i]]

-----------------------------------------------------------------------------
(* String constants (UTF-16 code units).                                   *)

\* "None"
S_None == <<78, 111, 110, 101>>
\* "Class"
S_Class == <<67, 108, 97, 115, 115>>
\* "/Script/UMG"
S_ScriptUMG == <<47, 83, 99, 114, 105, 112, 116, 47, 85, 77, 71>>
\* "/Script/Engine"
S_ScriptEngine == <<47, 83, 99, 114, 105, 112, 116, 47, 69, 110, 103, 105, 110, 101>>
\* "/Script/CoreUObject"
S_ScriptCoreUObject == <<47, 83, 99, 114, 105, 112, 116, 47, 67, 111, 114, 101, 85, 79, 98, 106, 101, 99, 116>>
\* "None_"
S_None_ == <<78, 111, 110, 101, 95>>
\* "StandardMacros"
S_StandardMacros == <<83, 116, 97, 110, 100, 97, 114, 100, 77, 97, 99, 114, 111, 115>>
\* "EditorBlueprintResources"
S_EditorBlueprintResources == <<69, 100, 105, 116, 111, 114, 66, 108, 117, 101, 112, 114, 105, 110, 116, 82, 101, 115, 111, 117, 114, 99, 101, 115>>
\* "Blueprint"
S_Blueprint == <<66, 108, 117, 101, 112, 114, 105, 110, 116>>
\* "CanvasPanel"
S_CanvasPanel == <<67, 97, 110, 118, 97, 115, 80, 97, 110, 101, 108>>
\* "CanvasPanelSlot"
S_CanvasPanelSlot == <<67, 97, 110, 118, 97, 115, 80, 97, 110, 101, 108, 83, 108, 111, 116>>
\* "WidgetTree"
S_WidgetTree == <<87, 105, 100, 103, 101, 116, 84, 114, 101, 101>>
\* "Image"
S_Image == <<73, 109, 97, 103, 101>>
\* "TextBlock"
S_TextBlock == <<84, 101, 120, 116, 66, 108, 111, 99, 107>>
\* "Button"
S_Button == <<66, 117, 116, 116, 111, 110>>
\* "HorizontalBox"
S_HorizontalBox == <<72, 111, 114, 105, 122, 111, 110, 116, 97, 108, 66, 111, 120>>
\* "VerticalBox"
S_VerticalBox == <<86, 101, 114, 116, 105, 99, 97, 108, 66, 111, 120>>
\* "Overlay"
S_Overlay == <<79, 118, 101, 114, 108, 97, 121>>
\* "ScrollBox"
S_ScrollBox == <<83, 99, 114, 111, 108, 108, 66, 111, 120>>
\* "WidgetBlueprintGeneratedClass"
S_WidgetBlueprintGeneratedClass == <<87, 105, 100, 103, 101, 116, 66, 108, 117, 101, 112, 114, 105, 110, 116, 71, 101, 110, 101, 114, 97, 116, 101, 100, 67, 108, 97, 115, 115>>
\* "GridPanel"
S_GridPanel == <<71, 114, 105, 100, 80, 97, 110, 101, 108>>
\* "UniformGridPanel"
S_UniformGridPanel == <<85, 110, 105, 102, 111, 114, 109, 71, 114, 105, 100, 80, 97, 110, 101, 108>>
\* "OverlaySlot"
S_OverlaySlot == <<79, 118, 101, 114, 108, 97, 121, 83, 108, 111, 116>>
\* "HorizontalBoxSlot"
S_HorizontalBoxSlot == <<72, 111, 114, 105, 122, 111, 110, 116, 97, 108, 66, 111, 120, 83, 108, 111, 116>>
\* "VerticalBoxSlot"
S_VerticalBoxSlot == <<86, 101, 114, 116, 105, 99, 97, 108, 66, 111, 120, 83, 108, 111, 116>>
\* "SizeBox"
S_SizeBox == <<83, 105, 122, 101, 66, 111, 120>>
\* "SizeBoxSlot"
S_SizeBoxSlot == <<83, 105, 122, 101, 66, 111, 120, 83, 108, 111, 116>>
\* "WBP_"
S_WBP_ == <<87, 66, 80, 95>>
\* "BP_"
S_BP_ == <<66, 80, 95>>
\* "WGT_"
S_WGT_ == <<87, 71, 84, 95>>
\* "_C"
S__C == <<95, 67>>
\* "ExecuteUbergraph"
S_ExecuteUbergraph == <<69, 120, 101, 99, 117, 116, 101, 85, 98, 101, 114, 103, 114, 97, 112, 104>>
\* "ExecuteUbergraph_"
S_ExecuteUbergraph_ == <<69, 120, 101, 99, 117, 116, 101, 85, 98, 101, 114, 103, 114, 97, 112, 104, 95>>
\* "Default__"
S_Default__ == <<68, 101, 102, 97, 117, 108, 116, 95, 95>>
\* "K2Node_"
S_K2Node_ == <<75, 50, 78, 111, 100, 101, 95>>
\* "EdGraph"
S_EdGraph == <<69, 100, 71, 114, 97, 112, 104>>
\* "/Script/"
S_Script == <<47, 83, 99, 114, 105, 112, 116, 47>>
\* "Unknown"
S_Unknown == <<85, 110, 107, 110, 111, 119, 110>>
\* "Widget"
S_Widget == <<87, 105, 100, 103, 101, 116>>
\* "GeneratedClass"
S_GeneratedClass == <<71, 101, 110, 101, 114, 97, 116, 101, 100, 67, 108, 97, 115, 115>>
\* "Class "
S_ClassSp == <<67, 108, 97, 115, 115, 32>>
\* "Class /Script/UMG."
S_ClassScriptUMGDot == <<67, 108, 97, 115, 115, 32, 47, 83, 99, 114, 105, 112, 116, 47, 85, 77, 71, 46>>
\* "Class /Script/UMG.UserWidget"
S_ClassScriptUMGUserWidget == <<67, 108, 97, 115, 115, 32, 47, 83, 99, 114, 105, 112, 116, 47, 85, 77, 71, 46, 85, 115, 101, 114, 87, 105, 100, 103, 101, 116>>
\* "Class /Script/UMG.WidgetBlueprintGeneratedClass"
S_ClassScriptUMGWBGC == <<67, 108, 97, 115, 115, 32, 47, 83, 99, 114, 105, 112, 116, 47, 85, 77, 71, 46, 87, 105, 100, 103, 101, 116, 66, 108, 117, 101, 112, 114, 105, 110, 116, 71, 101, 110, 101, 114, 97, 116, 101, 100, 67, 108, 97, 115, 115>>
\* "Class /Script/Engine.BlueprintGeneratedClass"
S_ClassScriptEngineBGC == <<67, 108, 97, 115, 115, 32, 47, 83, 99, 114, 105, 112, 116, 47, 69, 110, 103, 105, 110, 101, 46, 66, 108, 117, 101, 112, 114, 105, 110, 116, 71, 101, 110, 101, 114, 97, 116, 101, 100, 67, 108, 97, 115, 115>>
\* "Class /Script/BlueprintGraph."
S_ClassScriptBlueprintGraphDot == <<67, 108, 97, 115, 115, 32, 47, 83, 99, 114, 105, 112, 116, 47, 66, 108, 117, 101, 112, 114, 105, 110, 116, 71, 114, 97, 112, 104, 46>>
\* "Class /Script/Engine."
S_ClassScriptEngineDot == <<67, 108, 97, 115, 115, 32, 47, 83, 99, 114, 105, 112, 116, 47, 69, 110, 103, 105, 110, 101, 46>>
\* "Class /Script/"
S_ClassScript == <<67, 108, 97, 115, 115, 32, 47, 83, 99, 114, 105, 112, 116, 47>>
\* "Class /Script/Engine.Blueprint"
S_ClassScriptEngineBlueprint == <<67, 108, 97, 115, 115, 32, 47, 83, 99, 114, 105, 112, 116, 47, 69, 110, 103, 105, 110, 101, 46, 66, 108, 117, 101, 112, 114, 105, 110, 116>>
\* "WidgetTree."
S_WidgetTreeDot == <<87, 105, 100, 103, 101, 116, 84, 114, 101, 101, 46>>
\* ".WidgetTree."
S_DotWidgetTreeDot == <<46, 87, 105, 100, 103, 101, 116, 84, 114, 101, 101, 46>>
\* ":WidgetTree"
S_ColonWidgetTree == <<58, 87, 105, 100, 103, 101, 116, 84, 114, 101, 101>>
\* " /Game/Blueprint/HUD/VR_HUD/"
S_OuterPathPrefix == <<32, 47, 71, 97, 109, 101, 47, 66, 108, 117, 101, 112, 114, 105, 110, 116, 47, 72, 85, 68, 47, 86, 82, 95, 72, 85, 68, 47>>
\* "WidgetTree /Game/Blueprint/HUD/VR_HUD/"
S_WidgetTreeOuterPrefix == <<87, 105, 100, 103, 101, 116, 84, 114, 101, 101, 32, 47, 71, 97, 109, 101, 47, 66, 108, 117, 101, 112, 114, 105, 110, 116, 47, 72, 85, 68, 47, 86, 82, 95, 72, 85, 68, 47>>


-----------------------------------------------------------------------------
(* Format constants of the parser.                                         *)

\* PACKAGE_FILE_TAG = 0x9E2A83C1 and its byte-swapped value
PACKAGE_FILE_TAG == <<158, 42, 131, 193>>
PACKAGE_FILE_TAG_SWAPPED == <<193, 131, 42, 158>>

VER_UE4_ADDED_PACKAGE_SUMMARY_LOCALIZATION_ID == 510
VER_UE4_SERIALIZE_TEXT_IN_PACKAGES == 459
VER_UE4_ADD_STRING_ASSET_REFERENCES_MAP == 384
VER_UE4_ADDED_SEARCHABLE_NAMES == 510
VER_UE4_ENGINE_VERSION_OBJECT == 336
VER_UE4_PACKAGE_SUMMARY_HAS_COMPATIBLE_ENGINE_VERSION == 444
VER_UE4_WORLD_LEVEL_INFO == 518
VER_UE4_PRELOAD_DEPENDENCIES_IN_COOKED_EXPORTS == 214
VER_UE4_ADDED_PACKAGE_OWNER == 498
VER_UE4_NON_OUTER_PACKAGE_IMPORT == 516
VER_UE4_CHANGED_CHUNKID_TO_BE_AN_ARRAY_OF_CHUNKIDS == 459
VER_UE4_ADDED_CHUNKID_TO_ASSETDATA_AND_UPACKAGE == 278

-----------------------------------------------------------------------------
(* UAssetParser: cursor reads.  A cursor state s is a record               *)
(*   off : this.offset      le : this.useLittleEndian                      *)
(*   st  : "ok", or why the method stopped ("null": it returned null;      *)
(*         "RangeError": a read past the buffer threw; "compressed",       *)
(*         "cook", "chunk": the three `throw new Error` of the summary)    *)
(*   f   : the fields read so far                                          *)

U32Zero == <<0, 0, 0, 0>>

\* this.readInt32() into field name
RdI32(buf, s, name) ==
    IF ~InBuf(buf, s.off, 4) THEN [s EXCEPT !.st = "RangeError"]
    ELSE [s EXCEPT !.off = @ + 4, !.f[name] = Int32At(buf, s.off, s.le)]

\* this.readUInt32() into field name
RdU32(buf, s, name) ==
    IF ~InBuf(buf, s.off, 4) THEN [s EXCEPT !.st = "RangeError"]
    ELSE [s EXCEPT !.off = @ + 4, !.f[name] = UInt32At(buf, s.off, s.le)]

\* this.readUInt16() into field name
RdU16(buf, s, name) ==
    IF ~InBuf(buf, s.off, 2) THEN [s EXCEPT !.st = "RangeError"]
    ELSE [s EXCEPT !.off = @ + 2, !.f[name] = UInt16At(buf, s.off, s.le)]

\* this.readInt64() into field name
RdI64(buf, s, name) ==
    IF ~InBuf(buf, s.off, 8) THEN [s EXCEPT !.st = "RangeError"]
    ELSE [s EXCEPT !.off = @ + 8, !.f[name] = Int64At(buf, s.off, s.le)]

\* fixed-width reads whose values are dropped (n bytes in all): the first
\* read that does not fit throws
RdSkip(buf, s, n) ==
    IF ~InBuf(buf, s.off, n) THEN [s EXCEPT !.st = "RangeError"]
    ELSE [s EXCEPT !.off = @ + n]

\* this.readGuid() / readGuidString(): four readUInt32
RdGuid(buf, s, name) ==
    IF ~InBuf(buf, s.off, 16) THEN [s EXCEPT !.st = "RangeError"]
    ELSE [s EXCEPT !.off = @ + 16,
                   !.f[name] = <<UInt32At(buf, s.off, s.le),
                                 UInt32At(buf, s.off + 4, s.le),
                                 UInt32At(buf, s.off + 8, s.le),
                                 UInt32At(buf, s.off + 12, s.le)>>]

\* The string and the new offset of UAssetParser.readFString at off.
\* The slices clamp, so only the read of the length can throw.
FStringAt(buf, off, le) ==
    LET length == Int32At(buf, off, le)
        o == off + 4
    IN  IF length = 0 THEN [str |-> <<>>, off |-> o]
        ELSE IF length > 0 THEN
            [str |-> AsciiDecode(BufSlice(buf, o, SatAdd(o, length)), length - 1),
             off |-> SatAdd(o, length)]
        ELSE
            LET byteLength == SatMul(Abs32(length), 2)
            IN  [str |-> Utf16Decode(BufSlice(buf, o, SatAdd(o, byteLength)),
                                     byteLength - 2),
                 off |-> SatAdd(o, byteLength)]

\* this.readFString() into field name
RdFStr(buf, s, name) ==
    IF ~InBuf(buf, s.off, 4) THEN [s EXCEPT !.st = "RangeError"]
    ELSE LET r == FStringAt(buf, s.off, s.le)
         IN  [s EXCEPT !.off = r.off, !.f[name] = r.str]

\* a loop `for (i = 0; i < count; i++)` whose body reads width bytes with
\* fixed-width reads: it throws as soon as one iteration does not fit
RdLoop(buf, s, count, width) ==
    IF count <= 0 THEN s
    ELSE IF s.off < 0 \/ count > (Len(buf) - s.off) \div width
         THEN [s EXCEPT !.st = "RangeError"]
         ELSE [s EXCEPT !.off = @ + count * width]

\* major, minor, patch, changelist, branch of an engine version
RdEngineVersion(buf, s, name) ==
    LET a == RdU16(buf, [s EXCEPT !.f.tmpMajor = 0], "tmpMajor")
        b == IF a.st = "ok" THEN RdU16(buf, a, "tmpMinor") ELSE a
        c == IF b.st = "ok" THEN RdU16(buf, b, "tmpPatch") ELSE b
        d == IF c.st = "ok" THEN RdU32(buf, c, "tmpChangelist") ELSE c
        e == IF d.st = "ok" THEN RdFStr(buf, d, "tmpBranch") ELSE d
    IN  IF e.st # "ok" THEN e
        ELSE [e EXCEPT !.f[name] = <<e.f.tmpMajor, e.f.tmpMinor, e.f.tmpPatch,
                                     e.f.tmpChangelist, e.f.tmpBranch>>]

\* the fields of FPackageFileSummary before anything is read
SummaryFields0 ==
    [Tag |-> U32Zero, LegacyFileVersion |-> 0, LegacyUE3Version |-> 0,
     FileVersionUE4 |-> 0, FileVersionUE5 |-> 0, FileVersionLicenseeUE4 |-> 0,
     CustomVersionCount |-> 0, TotalHeaderSize |-> 0, FolderName |-> <<>>,
     PackageFlags |-> U32Zero, NameCount |-> 0, NameOffset |-> 0,
     LocalizationId |-> <<>>, GatherableTextDataCount |-> 0,
     GatherableTextDataOffset |-> 0, ExportCount |-> 0, ExportOffset |-> 0,
     ImportCount |-> 0, ImportOffset |-> 0, DependsOffset |-> 0,
     SoftPackageReferencesCount |-> 0, SoftPackageReferencesOffset |-> 0,
     SearchableNamesOffset |-> 0, ThumbnailTableOffset |-> 0,
     Guid |-> <<>>, PersistentGuid |-> <<>>, GenerationsCount |-> 0,
     SavedByEngineVersion |-> <<>>, CompatibleWithEngineVersion |-> <<>>,
     CompressionFlags |-> U32Zero, CompressedChunksCount |-> 0,
     PackageSource |-> U32Zero, AdditionalPackagesCount |-> 0,
     AssetRegistryDataOffset |-> 0, BulkDataStartOffset |-> 0,
     WorldTileInfoDataOffset |-> 0, ChunkIDsCount |-> 0,
     PreloadDependencyCount |-> -1, PreloadDependencyOffset |-> 0,
     tmpMajor |-> 0, tmpMinor |-> 0, tmpPatch |-> 0,
     tmpChangelist |-> U32Zero, tmpBranch |-> <<>>]


-----------------------------------------------------------------------------
(* UAssetParser.readPackageFileSummary, one step per statement group.      *)

\* the magic number check
StepTag(buf, s) ==
    LET r == RdU32(buf, s, "Tag")
    IN  IF r.st # "ok" THEN r
        ELSE IF r.f.Tag = PACKAGE_FILE_TAG_SWAPPED THEN [r EXCEPT !.le = FALSE]
        ELSE IF r.f.Tag # PACKAGE_FILE_TAG THEN [r EXCEPT !.st = "null"]
        ELSE r

\* a variant that lets the legacy version -5 through as well
StepLegacyLax(buf, s) ==
    LET r == RdI32(buf, s, "LegacyFileVersion")
        v == r.f.LegacyFileVersion
    IN  IF r.st # "ok" THEN r
        ELSE IF v # -5 /\ v # -6 /\ v # -7 /\ v # -8 THEN [r EXCEPT !.st = "null"]
        ELSE r

\* the supported legacy versions are -6, -7, -8
StepLegacy(buf, s) ==
    LET r == RdI32(buf, s, "LegacyFileVersion")
        v == r.f.LegacyFileVersion
    IN  IF r.st # "ok" THEN r
        ELSE IF v # -6 /\ v # -7 /\ v # -8 THEN [r EXCEPT !.st = "null"]
        ELSE r

StepCustomVersions(buf, s) ==
    LET r == RdI32(buf, s, "CustomVersionCount")
    IN  IF r.st # "ok" THEN r
        ELSE RdLoop(buf, r, r.f.CustomVersionCount, 20)

StepGenerations(buf, s) ==
    LET r == RdI32(buf, s, "GenerationsCount")
    IN  IF r.st # "ok" THEN r
        ELSE RdLoop(buf, r, r.f.GenerationsCount, 8)

\* `if (compressedChunksCount > 0) throw`
StepCompressedChunks(buf, s) ==
    LET r == RdI32(buf, s, "CompressedChunksCount")
    IN  IF r.st # "ok" THEN r
        ELSE IF r.f.CompressedChunksCount > 0 THEN [r EXCEPT !.st = "compressed"]
        ELSE r

\* `if (additionalPackagesCount > 0) throw`
StepAdditionalPackages(buf, s) ==
    LET r == RdI32(buf, s, "AdditionalPackagesCount")
    IN  IF r.st # "ok" THEN r
        ELSE IF r.f.AdditionalPackagesCount > 0 THEN [r EXCEPT !.st = "cook"]
        ELSE r

\* the chunk-id list, or the single chunk id of older files
StepChunkIDs(buf, s) ==
    IF s.f.FileVersionUE4 >= VER_UE4_CHANGED_CHUNKID_TO_BE_AN_ARRAY_OF_CHUNKIDS
    THEN LET r == RdI32(buf, s, "ChunkIDsCount")
         IN  IF r.st # "ok" THEN r
             ELSE IF r.f.ChunkIDsCount > 0 THEN [r EXCEPT !.st = "chunk"]
             ELSE r
    ELSE IF s.f.FileVersionUE4 >= VER_UE4_ADDED_CHUNKID_TO_ASSETDATA_AND_UPACKAGE
    THEN RdSkip(buf, s, 4)
    ELSE s

SumStep(buf, k, s) ==
    LET ver == s.f.FileVersionUE4
    IN
    IF s.st # "ok" THEN s
    ELSE CASE k = 1 -> StepTag(buf, s)
      [] k = 2 -> StepLegacy(buf, s)
      [] k = 3 -> RdI32(buf, s, "LegacyUE3Version")
      [] k = 4 -> RdI32(buf, s, "FileVersionUE4")
      [] k = 5 -> IF s.f.LegacyFileVersion <= -8
                  THEN RdI32(buf, s, "FileVersionUE5") ELSE s
      [] k = 6 -> RdI32(buf, s, "FileVersionLicenseeUE4")
      [] k = 7 -> StepCustomVersions(buf, s)
      [] k = 8 -> RdI32(buf, s, "TotalHeaderSize")
      [] k = 9 -> RdFStr(buf, s, "FolderName")
      [] k = 10 -> RdU32(buf, s, "PackageFlags")
      [] k = 11 -> RdI32(buf, s, "NameCount")
      [] k = 12 -> RdI32(buf, s, "NameOffset")
      [] k = 13 -> IF ver >= VER_UE4_ADDED_PACKAGE_SUMMARY_LOCALIZATION_ID
                   THEN RdFStr(buf, s, "LocalizationId") ELSE s
      [] k = 14 -> IF ver >= VER_UE4_SERIALIZE_TEXT_IN_PACKAGES
                   THEN LET r == RdI32(buf, s, "GatherableTextDataCount")
                        IN  IF r.st # "ok" THEN r
                            ELSE RdI32(buf, r, "GatherableTextDataOffset")
                   ELSE s
      [] k = 15 -> RdI32(buf, s, "ExportCount")
      [] k = 16 -> RdI32(buf, s, "ExportOffset")
      [] k = 17 -> RdI32(buf, s, "ImportCount")
      [] k = 18 -> RdI32(buf, s, "ImportOffset")
      [] k = 19 -> RdI32(buf, s, "DependsOffset")
      [] k = 20 -> IF ver >= VER_UE4_ADD_STRING_ASSET_REFERENCES_MAP
                   THEN LET r == RdI32(buf, s, "SoftPackageReferencesCount")
                        IN  IF r.st # "ok" THEN r
                            ELSE RdI32(buf, r, "SoftPackageReferencesOffset")
                   ELSE s
      [] k = 21 -> IF ver >= VER_UE4_ADDED_SEARCHABLE_NAMES
                   THEN RdI32(buf, s, "SearchableNamesOffset") ELSE s
      [] k = 22 -> RdI32(buf, s, "ThumbnailTableOffset")
      [] k = 23 -> RdGuid(buf, s, "Guid")
      [] k = 24 -> IF ver >= VER_UE4_ADDED_PACKAGE_OWNER
                   THEN RdGuid(buf, s, "PersistentGuid") ELSE s
      [] k = 25 -> IF ver >= VER_UE4_ADDED_PACKAGE_OWNER
                      /\ ver < VER_UE4_NON_OUTER_PACKAGE_IMPORT
                   THEN RdSkip(buf, s, 16) ELSE s
      [] k = 26 -> StepGenerations(buf, s)
      [] k = 27 -> IF ver >= VER_UE4_ENGINE_VERSION_OBJECT
                   THEN RdEngineVersion(buf, s, "SavedByEngineVersion")
                   ELSE RdSkip(buf, s, 4)
      [] k = 28 -> IF ver >= VER_UE4_PACKAGE_SUMMARY_HAS_COMPATIBLE_ENGINE_VERSION
                   THEN RdEngineVersion(buf, s, "CompatibleWithEngineVersion")
                   ELSE [s EXCEPT !.f.CompatibleWithEngineVersion =
                                        s.f.SavedByEngineVersion]
      [] k = 29 -> RdU32(buf, s, "CompressionFlags")
      [] k = 30 -> StepCompressedChunks(buf, s)
      [] k = 31 -> RdU32(buf, s, "PackageSource")
      [] k = 32 -> StepAdditionalPackages(buf, s)
      [] k = 33 -> IF s.f.LegacyFileVersion > -7 THEN RdSkip(buf, s, 4) ELSE s
      [] k = 34 -> RdI32(buf, s, "AssetRegistryDataOffset")
      [] k = 35 -> RdI64(buf, s, "BulkDataStartOffset")
      [] k = 36 -> IF ver >= VER_UE4_WORLD_LEVEL_INFO
                   THEN RdI32(buf, s, "WorldTileInfoDataOffset") ELSE s
      [] k = 37 -> StepChunkIDs(buf, s)
      [] OTHER -> IF ver >= VER_UE4_PRELOAD_DEPENDENCIES_IN_COOKED_EXPORTS
                  THEN LET r == RdI32(buf, s, "PreloadDependencyCount")
                       IN  IF r.st # "ok" THEN r
                           ELSE RdI32(buf, r, "PreloadDependencyOffset")
                  ELSE s

RECURSIVE SumFold(_, _, _)
SumFold(buf, k, s) ==
    IF k > 38 THEN s ELSE SumFold(buf, k + 1, SumStep(buf, k, s))

\* readPackageFileSummary on a fresh parser (offset 0, little endian)
readPackageFileSummary(buf) ==
    SumFold(buf, 1, [off |-> 0, le |-> TRUE, st |-> "ok", f |-> SummaryFields0])


-----------------------------------------------------------------------------
(* JavaScript string operations on code-unit sequences.                    *)

\* s.startsWith(p), s.endsWith(p)
StartsWith(s, p) == Len(p) <= Len(s) /\ SubSeq(s, 1, Len(p)) = p
EndsWith(s, p) == Len(p) <= Len(s) /\ SubSeq(s, Len(s) - Len(p) + 1, Len(s)) = p

\* s.indexOf(p) + 1 (0 when p does not occur)
IndexOf(s, p) ==
    LET I == {i \in 1..(Len(s) - Len(p) + 1) : SubSeq(s, i, i + Len(p) - 1) = p}
    IN  IF I = {} THEN 0 ELSE CHOOSE i \in I : \A j \in I : i <= j

\* s.includes(p)
Includes(s, p) == IndexOf(s, p) # 0

\* s.replace(p, r) with a string pattern: the first occurrence only
ReplaceFirst(s, p, r) ==
    LET i == IndexOf(s, p)
    IN  IF i = 0 THEN s
        ELSE SubSeq(s, 1, i - 1) \o r \o SubSeq(s, i + Len(p), Len(s))

\* s.split(sep) for a one-character separator
RECURSIVE Split(_, _)
Split(s, sep) ==
    LET i == IndexOf(s, <<sep>>)
    IN  IF i = 0 THEN <<s>>
        ELSE <<SubSeq(s, 1, i - 1)>> \o Split(SubSeq(s, i + 1, Len(s)), sep)

\* parts.join(sep)
RECURSIVE Join(_, _)
Join(parts, sep) ==
    IF Len(parts) = 0 THEN <<>>
    ELSE IF Len(parts) = 1 THEN parts[1]
    ELSE parts[1] \o sep \o Join(Tail(parts), sep)

\* String(n) for n >= 0
RECURSIVE Dec(_)
Dec(n) == IF n < 10 THEN <<48 + n>> ELSE Dec(n \div 10) \o <<48 + (n % 10)>>

\* list.includes(x)
InList(list, x) == \E i \in 1..Len(list) : list[i] = x

-----------------------------------------------------------------------------
(* UAssetParser: name references.                                          *)

\* getNameByIndex with the test `index > 0`
getNameByIndexFromOne(names, index) ==
    IF index > 0 /\ index < Len(names) THEN names[index + 1] ELSE S_None

\* getNameByIndex(index)
getNameByIndex(names, index) ==
    IF index >= 0 /\ index < Len(names) THEN names[index + 1] ELSE S_None

\* the instance rule of readFName: `${name}_${number - 1}` when number > 0
WithInstance(name, number) ==
    IF number > 0 THEN name \o <<95>> \o Dec(number - 1) ELSE name

\* readFName at off (both reads in range)
FNameAt(buf, off, le, names) ==
    WithInstance(getNameByIndex(names, Int32At(buf, off, le)),
                 Int32At(buf, off + 4, le))

-----------------------------------------------------------------------------
(* UAssetParser.readNameTable                                              *)

RECURSIVE NameTableLoop(_, _, _, _, _, _)
NameTableLoop(buf, off, le, ver, n, acc) ==
    IF n <= 0 THEN [st |-> "ok", off |-> off, names |-> acc]
    ELSE IF ~InBuf(buf, off, 4) THEN [st |-> "RangeError", off |-> off, names |-> acc]
    ELSE LET r == FStringAt(buf, off, le)
         IN  IF ver >= 504
             THEN IF ~InBuf(buf, r.off, 4)
                  THEN [st |-> "RangeError", off |-> r.off, names |-> acc]
                  ELSE NameTableLoop(buf, r.off + 4, le, ver, n - 1, Append(acc, r.str))
             ELSE NameTableLoop(buf, r.off, le, ver, n - 1, Append(acc, r.str))

readNameTable(buf, le, sum) ==
    NameTableLoop(buf, sum.NameOffset, le, sum.FileVersionUE4, sum.NameCount, <<>>)

-----------------------------------------------------------------------------
(* UAssetParser.readImportTable                                            *)

umgClassesImport ==
    <<S_CanvasPanel, S_CanvasPanelSlot, S_WidgetTree, S_Image, S_TextBlock,
      S_Button, S_HorizontalBox, S_VerticalBox, S_Overlay, S_ScrollBox>>

\* "Fix common import paths" and "Fix corrupted package names"
cleanPackage(classPackage, className) ==
    LET p1 == IF classPackage = S_Class /\ InList(umgClassesImport, className)
              THEN S_ScriptUMG ELSE classPackage
    IN  IF StartsWith(p1, S_None_) \/ Includes(p1, S_StandardMacros)
           \/ Includes(p1, S_EditorBlueprintResources)
        THEN IF InList(umgClassesImport, className) THEN S_ScriptUMG
             ELSE IF Includes(className, S_Blueprint) THEN S_ScriptEngine
             ELSE S_ScriptCoreUObject
        ELSE p1

\* "Fix corrupted class names"
cleanClass(className) ==
    IF StartsWith(className, S_None_) \/ Includes(className, <<95>>)
    THEN LET parts == Split(className, 95)
         IN  IF Len(parts) > 1 /\ ~StartsWith(parts[1], S_None)
             THEN parts[1] ELSE className
    ELSE className

\* a reader that takes 28 bytes for an entry of every version
ImportStride28(ver) == 28

\* bytes one import entry takes
ImportStride(ver) == IF ver >= 508 THEN 36 ELSE 28

RECURSIVE ImportLoop(_, _, _, _, _, _, _)
ImportLoop(buf, off, le, ver, names, n, acc) ==
    IF n <= 0 THEN [st |-> "ok", off |-> off, imports |-> acc]
    ELSE IF ~InBuf(buf, off, ImportStride(ver))
         THEN [st |-> "RangeError", off |-> off, imports |-> acc]
    ELSE LET classPackage == FNameAt(buf, off, le, names)
             className == FNameAt(buf, off + 8, le, names)
             outerIndex == Int32At(buf, off + 16, le)
             objectName == FNameAt(buf, off + 20, le, names)
             imp == [ClassPackage |-> cleanPackage(classPackage, className),
                     ClassName |-> cleanClass(className),
                     OuterIndex |-> outerIndex,
                     ObjectName |-> objectName]
         IN  ImportLoop(buf, off + ImportStride(ver), le, ver, names, n - 1,
                        Append(acc, imp))

readImportTable(buf, le, sum, names) ==
    ImportLoop(buf, sum.ImportOffset, le, sum.FileVersionUE4, names,
               sum.ImportCount, <<>>)

-----------------------------------------------------------------------------
(* UAssetParser.readExportTable                                            *)

\* one FObjectExport read at off (104 bytes, all in range)
ExportAt(buf, off, le, names) ==
    [ClassIndex |-> Int32At(buf, off, le),
     SuperIndex |-> Int32At(buf, off + 4, le),
     TemplateIndex |-> Int32At(buf, off + 8, le),
     OuterIndex |-> Int32At(buf, off + 12, le),
     ObjectName |-> FNameAt(buf, off + 16, le, names),
     Save |-> Int32At(buf, off + 24, le),
     SerialSize |-> Int64At(buf, off + 28, le),
     SerialOffset |-> Int64At(buf, off + 36, le),
     bForcedExport |-> Int32At(buf, off + 44, le) # 0,
     bNotForClient |-> Int32At(buf, off + 48, le) # 0,
     bNotForServer |-> Int32At(buf, off + 52, le) # 0,
     PackageGuid |-> <<UInt32At(buf, off + 56, le), UInt32At(buf, off + 60, le),
                       UInt32At(buf, off + 64, le), UInt32At(buf, off + 68, le)>>,
     PackageFlags |-> UInt32At(buf, off + 72, le),
     bNotAlwaysLoadedForEditorGame |-> Int32At(buf, off + 76, le) # 0,
     bIsAsset |-> Int32At(buf, off + 80, le) # 0,
     FirstExportDependency |-> Int32At(buf, off + 84, le),
     SerializationBeforeSerializationDependencies |-> Int32At(buf, off + 88, le),
     CreateBeforeSerializationDependencies |-> Int32At(buf, off + 92, le),
     SerializationBeforeCreateDependencies |-> Int32At(buf, off + 96, le),
     CreateBeforeCreateDependencies |-> Int32At(buf, off + 100, le)]

RECURSIVE ExportLoop(_, _, _, _, _, _)
ExportLoop(buf, off, le, names, n, acc) ==
    IF n <= 0 THEN [st |-> "ok", off |-> off, exports |-> acc]
    ELSE IF ~InBuf(buf, off, 104)
         THEN [st |-> "RangeError", off |-> off, exports |-> acc]
    ELSE ExportLoop(buf, off + 104, le, names, n - 1,
                    Append(acc, ExportAt(buf, off, le, names)))

readExportTable(buf, le, sum, names) ==
    ExportLoop(buf, sum.ExportOffset, le, names, sum.ExportCount, <<>>)


-----------------------------------------------------------------------------
(* PropertySerializer: names of property types, struct identities and the  *)
(* keys of the values it builds.                                           *)

\* "BoolProperty"
T_BoolProperty == <<66, 111, 111, 108, 80, 114, 111, 112, 101, 114, 116, 121>>
\* "IntProperty"
T_IntProperty == <<73, 110, 116, 80, 114, 111, 112, 101, 114, 116, 121>>
\* "Int32Property"
T_Int32Property == <<73, 110, 116, 51, 50, 80, 114, 111, 112, 101, 114, 116, 121>>
\* "FloatProperty"
T_FloatProperty == <<70, 108, 111, 97, 116, 80, 114, 111, 112, 101, 114, 116, 121>>
\* "ObjectProperty"
T_ObjectProperty == <<79, 98, 106, 101, 99, 116, 80, 114, 111, 112, 101, 114, 116, 121>>
\* "NameProperty"
T_NameProperty == <<78, 97, 109, 101, 80, 114, 111, 112, 101, 114, 116, 121>>
\* "StrProperty"
T_StrProperty == <<83, 116, 114, 80, 114, 111, 112, 101, 114, 116, 121>>
\* "StructProperty"
T_StructProperty == <<83, 116, 114, 117, 99, 116, 80, 114, 111, 112, 101, 114, 116, 121>>
\* "ArrayProperty"
T_ArrayProperty == <<65, 114, 114, 97, 121, 80, 114, 111, 112, 101, 114, 116, 121>>
\* "MapProperty"
T_MapProperty == <<77, 97, 112, 80, 114, 111, 112, 101, 114, 116, 121>>
\* "ByteProperty"
T_ByteProperty == <<66, 121, 116, 101, 80, 114, 111, 112, 101, 114, 116, 121>>
\* "TextProperty"
T_TextProperty == <<84, 101, 120, 116, 80, 114, 111, 112, 101, 114, 116, 121>>
\* "EnumProperty"
T_EnumProperty == <<69, 110, 117, 109, 80, 114, 111, 112, 101, 114, 116, 121>>
\* "SoftObjectProperty"
T_SoftObjectProperty == <<83, 111, 102, 116, 79, 98, 106, 101, 99, 116, 80, 114, 111, 112, 101, 114, 116, 121>>
\* "DelegateProperty"
T_DelegateProperty == <<68, 101, 108, 101, 103, 97, 116, 101, 80, 114, 111, 112, 101, 114, 116, 121>>
\* "MulticastDelegateProperty"
T_MulticastDelegateProperty == <<77, 117, 108, 116, 105, 99, 97, 115, 116, 68, 101, 108, 101, 103, 97, 116, 101, 80, 114, 111, 112, 101, 114, 116, 121>>
\* "InterfaceProperty"
T_InterfaceProperty == <<73, 110, 116, 101, 114, 102, 97, 99, 101, 80, 114, 111, 112, 101, 114, 116, 121>>
\* "DoubleProperty"
T_DoubleProperty == <<68, 111, 117, 98, 108, 101, 80, 114, 111, 112, 101, 114, 116, 121>>
\* "Int64Property"
T_Int64Property == <<73, 110, 116, 54, 52, 80, 114, 111, 112, 101, 114, 116, 121>>
\* "Int16Property"
T_Int16Property == <<73, 110, 116, 49, 54, 80, 114, 111, 112, 101, 114, 116, 121>>
\* "Int8Property"
T_Int8Property == <<73, 110, 116, 56, 80, 114, 111, 112, 101, 114, 116, 121>>
\* "UInt64Property"
T_UInt64Property == <<85, 73, 110, 116, 54, 52, 80, 114, 111, 112, 101, 114, 116, 121>>
\* "UInt32Property"
T_UInt32Property == <<85, 73, 110, 116, 51, 50, 80, 114, 111, 112, 101, 114, 116, 121>>
\* "UInt16Property"
T_UInt16Property == <<85, 73, 110, 116, 49, 54, 80, 114, 111, 112, 101, 114, 116, 121>>
\* "Vector"
ST_Vector == <<86, 101, 99, 116, 111, 114>>
\* "Vector3f"
ST_Vector3f == <<86, 101, 99, 116, 111, 114, 51, 102>>
\* "Vector2D"
ST_Vector2D == <<86, 101, 99, 116, 111, 114, 50, 68>>
\* "Vector2f"
ST_Vector2f == <<86, 101, 99, 116, 111, 114, 50, 102>>
\* "Vector4"
ST_Vector4 == <<86, 101, 99, 116, 111, 114, 52>>
\* "Vector4f"
ST_Vector4f == <<86, 101, 99, 116, 111, 114, 52, 102>>
\* "Rotator"
ST_Rotator == <<82, 111, 116, 97, 116, 111, 114>>
\* "Quat"
ST_Quat == <<81, 117, 97, 116>>
\* "Color"
ST_Color == <<67, 111, 108, 111, 114>>
\* "LinearColor"
ST_LinearColor == <<76, 105, 110, 101, 97, 114, 67, 111, 108, 111, 114>>
\* "Transform"
ST_Transform == <<84, 114, 97, 110, 115, 102, 111, 114, 109>>
\* "Guid"
ST_Guid == <<71, 117, 105, 100>>
\* "DateTime"
ST_DateTime == <<68, 97, 116, 101, 84, 105, 109, 101>>
\* "Timespan"
ST_Timespan == <<84, 105, 109, 101, 115, 112, 97, 110>>
\* "Margin"
ST_Margin == <<77, 97, 114, 103, 105, 110>>
\* "X"
K_X == <<88>>
\* "Y"
K_Y == <<89>>
\* "Z"
K_Z == <<90>>
\* "W"
K_W == <<87>>
\* "Pitch"
K_Pitch == <<80, 105, 116, 99, 104>>
\* "Yaw"
K_Yaw == <<89, 97, 119>>
\* "Roll"
K_Roll == <<82, 111, 108, 108>>
\* "R"
K_R == <<82>>
\* "G"
K_G == <<71>>
\* "B"
K_B == <<66>>
\* "A"
K_A == <<65>>
\* "C"
K_C == <<67>>
\* "D"
K_D == <<68>>
\* "Rotation"
K_Rotation == <<82, 111, 116, 97, 116, 105, 111, 110>>
\* "Translation"
K_Translation == <<84, 114, 97, 110, 115, 108, 97, 116, 105, 111, 110>>
\* "Scale3D"
K_Scale3D == <<83, 99, 97, 108, 101, 51, 68>>
\* "Ticks"
K_Ticks == <<84, 105, 99, 107, 115>>
\* "Left"
K_Left == <<76, 101, 102, 116>>
\* "Top"
K_Top == <<84, 111, 112>>
\* "Right"
K_Right == <<82, 105, 103, 104, 116>>
\* "Bottom"
K_Bottom == <<66, 111, 116, 116, 111, 109>>
\* "Properties"
K_Properties == <<80, 114, 111, 112, 101, 114, 116, 105, 101, 115>>
\* "__Type"
K___Type == <<95, 95, 84, 121, 112, 101>>
\* "__InnerType"
K___InnerType == <<95, 95, 73, 110, 110, 101, 114, 84, 121, 112, 101>>
\* "__StructName"
K___StructName == <<95, 95, 83, 116, 114, 117, 99, 116, 78, 97, 109, 101>>
\* "__Value"
K___Value == <<95, 95, 86, 97, 108, 117, 101>>
\* "AssetPathName"
K_AssetPathName == <<65, 115, 115, 101, 116, 80, 97, 116, 104, 78, 97, 109, 101>>
\* "SubPathString"
K_SubPathString == <<83, 117, 98, 80, 97, 116, 104, 83, 116, 114, 105, 110, 103>>
\* "Object"
K_Object == <<79, 98, 106, 101, 99, 116>>
\* "FunctionName"
K_FunctionName == <<70, 117, 110, 99, 116, 105, 111, 110, 78, 97, 109, 101>>
\* "Object:"
S_ObjectColon == <<79, 98, 106, 101, 99, 116, 58>>
\* "ObjectIndex:"
S_ObjectIndexColon == <<79, 98, 106, 101, 99, 116, 73, 110, 100, 101, 120, 58>>
\* " /Game/"
S_SpGame == <<32, 47, 71, 97, 109, 101, 47>>
\* "undefined"
S_undefined == <<117, 110, 100, 101, 102, 105, 110, 101, 100>>

-----------------------------------------------------------------------------
(* Document values.  A value is a record with a field t:                   *)
(*   "bool" (v), "int" (v), "u32" (v: digits), "big" (bytes: the 8 bytes   *)
(*   of a bigint, signed: TRUE/FALSE), "float"/"double" (bits: the bytes   *)
(*   of the IEEE value), "str" (v), "arr" (items), "obj" (kv: a sequence   *)
(*   of [k, v] in insertion order), "map" (an empty JavaScript Map),       *)
(*   "buf" (bytes: a Buffer), "undef".                                     *)

VBool(b) == [t |-> "bool", v |-> b]
VInt(n) == [t |-> "int", v |-> n]
VU32(d) == [t |-> "u32", v |-> d]
VBig(bytes, signed) == [t |-> "big", bytes |-> bytes, signed |-> signed]
VFloat(bits) == [t |-> "float", bits |-> bits]
VDouble(bits) == [t |-> "double", bits |-> bits]
VStr(s) == [t |-> "str", v |-> s]
VArr(items) == [t |-> "arr", items |-> items]
VObj(kv) == [t |-> "obj", kv |-> kv]
VMap == [t |-> "map"]
VBuf(bytes) == [t |-> "buf", bytes |-> bytes]
VUndef == [t |-> "undef"]

KV(k, v) == [k |-> k, v |-> v]

\* obj[key] = value on an ordered object: an existing key keeps its place
ObjSet(kv, key, value) ==
    IF \E i \in 1..Len(kv) : kv[i].k = key
    THEN [i \in 1..Len(kv) |-> IF kv[i].k = key THEN KV(key, value) ELSE kv[i]]
    ELSE Append(kv, KV(key, value))

\* key in obj, obj[key]
ObjHas(kv, key) == \E i \in 1..Len(kv) : kv[i].k = key
ObjGet(kv, key) == (CHOOSE i \in 1..Len(kv) : kv[i].k = key)
ObjVal(kv, key) == kv[ObjGet(kv, key)].v

\* an absent string field of a tag (undefined)
Undefined == <<-1>>

-----------------------------------------------------------------------------
(* PropertySerializer: binary reading helpers.  They always read little    *)
(* endian (readInt32LE, ...).  A result is [st, off, v]: st is "ok" or     *)
(* "RangeError" (the read threw), off the new this.offset.                 *)

AddClamp(a, b) ==
    IF b > 0 /\ a > MaxInt32 - b THEN MaxInt32
    ELSE IF b < 0 /\ a < MinInt32 - b THEN MinInt32
    ELSE a + b

PFail(off) == [st |-> "RangeError", off |-> off, v |-> VUndef]
POk(off, v) == [st |-> "ok", off |-> off, v |-> v]

\* readInt32 / readObjectReference
PreadInt32(buf, off) ==
    IF ~InBuf(buf, off, 4) THEN PFail(off)
    ELSE POk(off + 4, Int32At(buf, off, TRUE))

PreadUInt32(buf, off) ==
    IF ~InBuf(buf, off, 4) THEN PFail(off)
    ELSE POk(off + 4, VU32(UInt32At(buf, off, TRUE)))

PreadInt16(buf, off) ==
    IF ~InBuf(buf, off, 2) THEN PFail(off)
    ELSE LET u == UInt16At(buf, off, TRUE)
         IN  POk(off + 2, VInt(IF u >= 32768 THEN u - 65536 ELSE u))

PreadUInt16(buf, off) ==
    IF ~InBuf(buf, off, 2) THEN PFail(off)
    ELSE POk(off + 2, VInt(UInt16At(buf, off, TRUE)))

PreadInt8(buf, off) ==
    IF ~InBuf(buf, off, 1) THEN PFail(off)
    ELSE POk(off + 1, VInt(IF buf[off + 1] >= 128 THEN buf[off + 1] - 256
                           ELSE buf[off + 1]))

PreadUInt8(buf, off) ==
    IF ~InBuf(buf, off, 1) THEN PFail(off)
    ELSE POk(off + 1, buf[off + 1])

PreadBool(buf, off) ==
    IF ~InBuf(buf, off, 1) THEN PFail(off)
    ELSE POk(off + 1, buf[off + 1] # 0)

PreadInt64(buf, off) ==
    IF ~InBuf(buf, off, 8) THEN PFail(off)
    ELSE POk(off + 8, VBig(SubSeq(buf, off + 1, off + 8), TRUE))

PreadUInt64(buf, off) ==
    IF ~InBuf(buf, off, 8) THEN PFail(off)
    ELSE POk(off + 8, VBig(SubSeq(buf, off + 1, off + 8), FALSE))

PreadFloat(buf, off) ==
    IF ~InBuf(buf, off, 4) THEN PFail(off)
    ELSE POk(off + 4, VFloat(SubSeq(buf, off + 1, off + 4)))

PreadDouble(buf, off) ==
    IF ~InBuf(buf, off, 8) THEN PFail(off)
    ELSE POk(off + 8, VDouble(SubSeq(buf, off + 1, off + 8)))

\* readBytes(count): the slice clamps and never throws
PreadBytes(buf, off, count) ==
    POk(AddClamp(off, count), BufSlice(buf, off, AddClamp(off, count)))

\* the string readName resolves an (index, instance) pair to
resolveName(names, nameIndex, instanceNumber) ==
    IF nameIndex >= 0 /\ nameIndex < Len(names)
    THEN IF instanceNumber > 0
         THEN names[nameIndex + 1] \o <<95>> \o Dec(instanceNumber - 1)
         ELSE names[nameIndex + 1]
    ELSE S_None

\* readName
PreadName(buf, off, names) ==
    IF ~InBuf(buf, off, 8) THEN PFail(off)
    ELSE POk(off + 8, resolveName(names, Int32At(buf, off, TRUE),
                                  Int32At(buf, off + 4, TRUE)))

\* readString
PreadString(buf, off) ==
    IF ~InBuf(buf, off, 4) THEN PFail(off)
    ELSE LET length == Int32At(buf, off, TRUE)
             o == off + 4
         IN  IF length = 0 THEN POk(o, <<>>)
             ELSE IF length > 0
             THEN POk(AddClamp(o, length),
                      AsciiDecode(BufSlice(buf, o, AddClamp(o, length)), length - 1))
             ELSE LET absLength == Abs32(length)
                      n == SatMul(absLength, 2)
                  IN  POk(AddClamp(o, n),
                          Utf16Decode(BufSlice(buf, o, AddClamp(o, n)),
                                      SatMul(absLength - 1, 2)))


-----------------------------------------------------------------------------
(* PropertySerializer.readPropertyTag                                      *)

NullTag == [null |-> TRUE]

\* `tag.HasPropertyGuid = this.readBool(); if (...) tag.PropertyGuid = ...`
GuidBlock(buf, off) ==
    LET r == PreadBool(buf, off)
    IN  IF r.st # "ok" THEN r
        ELSE IF r.v
        THEN POk(AddClamp(r.off, 16),
                 [has |-> TRUE, guid |-> BufSlice(buf, r.off, AddClamp(r.off, 16))])
        ELSE POk(r.off, [has |-> FALSE, guid |-> <<>>])

\* the tag with its type-specific fields, read from off (just after the
\* array index)
TagExtras(buf, off, names, tag) ==
    IF tag.Type = T_StructProperty THEN
        LET n == PreadName(buf, off, names)
            g == GuidBlock(buf, AddClamp(n.off, 16))
        IN  IF n.st # "ok" THEN n
            ELSE IF g.st # "ok" THEN g
            ELSE POk(g.off, [tag EXCEPT !.StructName = n.v,
                                        !.StructGuid = BufSlice(buf, n.off, AddClamp(n.off, 16)),
                                        !.HasPropertyGuid = g.v.has,
                                        !.PropertyGuid = g.v.guid])
    ELSE IF tag.Type = T_BoolProperty THEN
        LET b == PreadBool(buf, off)
            g == GuidBlock(buf, b.off)
        IN  IF b.st # "ok" THEN b
            ELSE IF g.st # "ok" THEN g
            ELSE POk(g.off, [tag EXCEPT !.BoolVal = b.v,
                                        !.HasPropertyGuid = g.v.has,
                                        !.PropertyGuid = g.v.guid])
    ELSE IF tag.Type = T_ByteProperty \/ tag.Type = T_EnumProperty THEN
        LET n == PreadName(buf, off, names)
            g == GuidBlock(buf, n.off)
        IN  IF n.st # "ok" THEN n
            ELSE IF g.st # "ok" THEN g
            ELSE POk(g.off, [tag EXCEPT !.EnumName = n.v,
                                        !.HasPropertyGuid = g.v.has,
                                        !.PropertyGuid = g.v.guid])
    ELSE IF tag.Type = T_ArrayProperty THEN
        LET n == PreadName(buf, off, names)
            g == GuidBlock(buf, n.off)
        IN  IF n.st # "ok" THEN n
            ELSE IF g.st # "ok" THEN g
            ELSE POk(g.off, [tag EXCEPT !.InnerType = n.v,
                                        !.HasPropertyGuid = g.v.has,
                                        !.PropertyGuid = g.v.guid])
    ELSE IF tag.Type = T_MapProperty THEN
        LET n == PreadName(buf, off, names)
            m == PreadName(buf, n.off, names)
            g == GuidBlock(buf, m.off)
        IN  IF n.st # "ok" THEN n
            ELSE IF m.st # "ok" THEN m
            ELSE IF g.st # "ok" THEN g
            ELSE POk(g.off, [tag EXCEPT !.InnerType = n.v, !.ValueType = m.v,
                                        !.HasPropertyGuid = g.v.has,
                                        !.PropertyGuid = g.v.guid])
    ELSE
        LET g == GuidBlock(buf, off)
        IN  IF g.st # "ok" THEN g
            ELSE POk(g.off, [tag EXCEPT !.HasPropertyGuid = g.v.has,
                                        !.PropertyGuid = g.v.guid])

\* the name a tag's (index, instance) pair gives: the instance is read and
\* not used
tagName(names, index, instance) == names[index + 1]

\* readPropertyTag at off: [st, off, v], v the tag or NullTag.  at keeps
\* the offset the tag was read from (not a field of the code's tag).
readPropertyTag(buf, off, names) ==
    IF ~InBuf(buf, off, 4) THEN PFail(off)
    ELSE LET nameIndex == Int32At(buf, off, TRUE)
         IN
         IF nameIndex < 0 \/ nameIndex >= Len(names) THEN POk(off + 4, NullTag)
         ELSE IF ~InBuf(buf, off + 4, 4) THEN PFail(off + 4)
         ELSE LET name == tagName(names, nameIndex, Int32At(buf, off + 4, TRUE))
              IN
              IF name = S_None \/ name = <<>> THEN POk(off + 8, NullTag)
              ELSE IF ~InBuf(buf, off + 8, 4) THEN PFail(off + 8)
              ELSE LET typeIndex == Int32At(buf, off + 8, TRUE)
                   IN
                   IF typeIndex < 0 \/ typeIndex >= Len(names)
                   THEN POk(off + 12, NullTag)
                   ELSE IF ~InBuf(buf, off + 12, 12) THEN PFail(off + 12)
                   ELSE TagExtras(buf, off + 24, names,
                            [null |-> FALSE, at |-> off,
                             Name |-> name,
                             Type |-> tagName(names, typeIndex,
                                              Int32At(buf, off + 12, TRUE)),
                             Size |-> Int32At(buf, off + 16, TRUE),
                             ArrayIndex |-> Int32At(buf, off + 20, TRUE),
                             StructName |-> Undefined, StructGuid |-> <<>>,
                             BoolVal |-> FALSE, EnumName |-> Undefined,
                             InnerType |-> Undefined, ValueType |-> Undefined,
                             HasPropertyGuid |-> FALSE, PropertyGuid |-> <<>>])


-----------------------------------------------------------------------------
(* PropertySerializer: values                                              *)

\* `${index}` for a number that may be negative
DecInt(n) ==
    IF n = MinInt32 THEN <<45, 50, 49, 52, 55, 52, 56, 51, 54, 52, 56>>
    ELSE IF n < 0 THEN <<45>> \o Dec(-n) ELSE Dec(n)

\* a string that is set and not empty (a truthy tag field)
Truthy(s) == s # Undefined /\ s # <<>>

\* resolveObjectReference; an export record has no ClassName field, so the
\* template prints "undefined" for it
resolveObjectReference(index, imps, exps) ==
    IF index = 0 THEN S_None
    ELSE IF index > 0 /\ index - 1 < Len(exps)
    THEN S_ObjectColon \o S_undefined \o S_SpGame \o exps[index].ObjectName
    ELSE IF index < 0 /\ Abs32(index) - 1 < Len(imps)
    THEN S_ObjectColon \o imps[Abs32(index)].ClassName \o <<32>>
         \o imps[Abs32(index)].ObjectName
    ELSE S_ObjectIndexColon \o DecInt(index)

convertToUTXTFormat(value, tag, imps, exps) ==
    LET r1 == <<KV(K___Type, VStr(tag.Type))>>
        r2 == IF tag.Type = T_ArrayProperty /\ Truthy(tag.InnerType)
              THEN Append(r1, KV(K___InnerType, VStr(tag.InnerType))) ELSE r1
        r3 == IF tag.Type = T_StructProperty /\ Truthy(tag.StructName)
              THEN Append(r2, KV(K___StructName, VStr(tag.StructName))) ELSE r2
    IN  VObj(Append(r3,
            KV(K___Value,
               IF tag.Type = T_ObjectProperty /\ value.t = "int"
               THEN VStr(resolveObjectReference(value.v, imps, exps))
               ELSE value)))

\* the fixed layouts of readStruct: <<key, kind>> with kind "f" readFloat,
\* "b" readUInt8, "u" readUInt32, "q" readInt64
XYZ == <<<<K_X, "f">>, <<K_Y, "f">>, <<K_Z, "f">>>>
XYZW == <<<<K_X, "f">>, <<K_Y, "f">>, <<K_Z, "f">>, <<K_W, "f">>>>

FixedLayout(structName) ==
    IF structName \in {ST_Vector, ST_Vector3f} THEN XYZ
    ELSE IF structName \in {ST_Vector2D, ST_Vector2f}
    THEN <<<<K_X, "f">>, <<K_Y, "f">>>>
    ELSE IF structName \in {ST_Vector4, ST_Vector4f, ST_Quat} THEN XYZW
    ELSE IF structName = ST_Rotator
    THEN <<<<K_Pitch, "f">>, <<K_Yaw, "f">>, <<K_Roll, "f">>>>
    ELSE IF structName = ST_Color
    THEN <<<<K_B, "b">>, <<K_G, "b">>, <<K_R, "b">>, <<K_A, "b">>>>
    ELSE IF structName = ST_LinearColor
    THEN <<<<K_R, "f">>, <<K_G, "f">>, <<K_B, "f">>, <<K_A, "f">>>>
    ELSE IF structName = ST_Guid
    THEN <<<<K_A, "u">>, <<K_B, "u">>, <<K_C, "u">>, <<K_D, "u">>>>
    ELSE IF structName \in {ST_DateTime, ST_Timespan} THEN <<<<K_Ticks, "q">>>>
    ELSE <<<<K_Left, "f">>, <<K_Top, "f">>, <<K_Right, "f">>, <<K_Bottom, "f">>>>

IsFixedStruct(structName) ==
    structName \in {ST_Vector, ST_Vector3f, ST_Vector2D, ST_Vector2f,
                    ST_Vector4, ST_Vector4f, ST_Rotator, ST_Quat, ST_Color,
                    ST_LinearColor, ST_Guid, ST_DateTime, ST_Timespan,
                    ST_Margin}

ReadField(buf, off, kind) ==
    IF kind = "f" THEN PreadFloat(buf, off)
    ELSE IF kind = "u" THEN PreadUInt32(buf, off)
    ELSE IF kind = "q" THEN PreadInt64(buf, off)
    ELSE LET r == PreadUInt8(buf, off)
         IN  IF r.st = "ok" THEN POk(r.off, VInt(r.v)) ELSE r

RECURSIVE ReadFields(_, _, _, _, _)
ReadFields(buf, off, layout, i, kv) ==
    IF i > Len(layout) THEN POk(off, VObj(kv))
    ELSE LET r == ReadField(buf, off, layout[i][2])
         IN  IF r.st # "ok" THEN r
             ELSE ReadFields(buf, r.off, layout, i + 1,
                             ObjSet(kv, layout[i][1], r.v))

\* struct.Rotation, struct.Translation, struct.Scale3D
ReadTransform(buf, off) ==
    LET a == ReadFields(buf, off, XYZW, 1, <<>>)
        b == ReadFields(buf, a.off, XYZ, 1, <<>>)
        c == ReadFields(buf, b.off, XYZ, 1, <<>>)
    IN  IF a.st # "ok" THEN a
        ELSE IF b.st # "ok" THEN b
        ELSE IF c.st # "ok" THEN c
        ELSE POk(c.off, VObj(<<KV(K_Rotation, a.v), KV(K_Translation, b.v),
                               KV(K_Scale3D, c.v)>>))

\* { Object: readObjectReference(), FunctionName: readName() }
ReadDelegate(buf, off, names) ==
    LET o == PreadInt32(buf, off)
        n == PreadName(buf, o.off, names)
    IN  IF o.st # "ok" THEN o
        ELSE IF n.st # "ok" THEN n
        ELSE POk(n.off, VObj(<<KV(K_Object, VInt(o.v)),
                               KV(K_FunctionName, VStr(n.v))>>))

RECURSIVE DelegateLoop(_, _, _, _, _)
DelegateLoop(buf, off, names, n, acc) ==
    IF n <= 0 THEN POk(off, VArr(acc))
    ELSE LET r == ReadDelegate(buf, off, names)
         IN  IF r.st # "ok" THEN r
             ELSE DelegateLoop(buf, r.off, names, n - 1, Append(acc, r.v))

\* readMap: the count is read, the entries are not
readMap(buf, off) ==
    LET c == PreadInt32(buf, off)
    IN  IF c.st # "ok" THEN c ELSE POk(c.off, VMap)


-----------------------------------------------------------------------------
(* PropertySerializer: readStruct, readArray, readPropertyValue and        *)
(* deserializeProperties.  A value result is [st, off, v] with st "ok",    *)
(* "RangeError" (a read threw) or "diverges" (a nested decoder loops for   *)
(* ever and the call never returns).                                       *)

RECURSIVE readStruct(_, _, _, _, _, _)
RECURSIVE ArrayLoop(_, _, _, _, _, _, _, _)
RECURSIVE readPropertyValue(_, _, _, _, _, _)
RECURSIVE PropLoop(_, _, _, _, _, _, _, _)

\* the slice a generic struct hands to its nested decoder
NestedSlice(buf, off, tag) == BufSlice(buf, off, AddClamp(off, tag.Size))

\* The decode loop from off with the properties decoded so far; seen holds
\* the offsets the loop head was at: the loop's future is a function of
\* the offset, so a repeated offset is a loop that never ends.
\* Result: [st, off, Properties, order] with st "done" (the loop ended),
\* "caught" (an exception ended it) or "diverges"; order lists the names
\* of the properties decoded, in decoding order.
PropLoop(buf, off, names, imps, exps, props, order, seen) ==
    LET End(st, o) ==
            [st |-> st, off |-> o, Properties |-> props, order |-> order]
    IN
    IF ~(off < Len(buf)) THEN End("done", off)
    ELSE IF off \in seen THEN End("diverges", off)
    ELSE With(readPropertyTag(buf, off, names), LAMBDA t :
         IF t.st # "ok" THEN End("caught", t.off)
         ELSE IF t.v.null THEN End("done", t.off)
         ELSE With(readPropertyValue(buf, t.off, t.v, names, imps, exps),
              LAMBDA r :
              IF r.st = "diverges" THEN End("diverges", r.off)
              ELSE IF r.st # "ok" THEN End("caught", r.off)
              ELSE PropLoop(buf, r.off, names, imps, exps,
                            ObjSet(props, t.v.Name,
                                   convertToUTXTFormat(r.v, t.v, imps, exps)),
                            Append(order, t.v.Name), seen \cup {off})))

deserializeProperties(buf, names, imps, exps) ==
    PropLoop(buf, 0, names, imps, exps, <<>>, <<>>, {})

readStruct(buf, off, tag, names, imps, exps) ==
    IF tag.StructName = ST_Transform THEN ReadTransform(buf, off)
    ELSE IF IsFixedStruct(tag.StructName)
    THEN ReadFields(buf, off, FixedLayout(tag.StructName), 1, <<>>)
    ELSE With(deserializeProperties(NestedSlice(buf, off, tag), names,
                                    imps, exps),
         LAMBDA n :
         IF n.st = "diverges"
         THEN [st |-> "diverges", off |-> off, v |-> VUndef]
         ELSE POk(AddClamp(off, tag.Size),
                  VObj(<<KV(K_Properties, VObj(n.Properties))>>)))

\* the element types readArray knows
ArrayInnerTypes ==
    {T_ObjectProperty, T_NameProperty, T_StrProperty, T_IntProperty,
     T_FloatProperty, T_BoolProperty, T_ByteProperty, T_StructProperty}

\* a read whose value is wrapped as a document value
Wrap(r, W(_)) == IF r.st = "ok" THEN POk(r.off, W(r.v)) ELSE r

\* one element of readArray's loop
ArrayElement(buf, off, tag, names, imps, exps) ==
    IF tag.InnerType \in {T_ObjectProperty, T_IntProperty}
    THEN Wrap(PreadInt32(buf, off), VInt)
    ELSE IF tag.InnerType = T_NameProperty
    THEN Wrap(PreadName(buf, off, names), VStr)
    ELSE IF tag.InnerType = T_StrProperty
    THEN Wrap(PreadString(buf, off), VStr)
    ELSE IF tag.InnerType = T_FloatProperty THEN PreadFloat(buf, off)
    ELSE IF tag.InnerType = T_BoolProperty
    THEN Wrap(PreadBool(buf, off), VBool)
    ELSE IF tag.InnerType = T_ByteProperty
    THEN Wrap(PreadUInt8(buf, off), VInt)
    ELSE readStruct(buf, off,
                    [null |-> FALSE, at |-> off, Name |-> <<>>,
                     Type |-> T_StructProperty, Size |-> 0, ArrayIndex |-> 0,
                     StructName |-> tag.StructName, StructGuid |-> <<>>,
                     BoolVal |-> FALSE, EnumName |-> Undefined,
                     InnerType |-> Undefined, ValueType |-> Undefined,
                     HasPropertyGuid |-> FALSE, PropertyGuid |-> <<>>],
                    names, imps, exps)

\* the loop of readArray, were it to put each element before the others
RECURSIVE ArrayLoopReversed(_, _, _, _, _, _, _, _)
ArrayLoopReversed(buf, off, tag, names, imps, exps, n, acc) ==
    IF n <= 0 THEN POk(off, VArr(acc))
    ELSE With(ArrayElement(buf, off, tag, names, imps, exps), LAMBDA r :
         IF r.st # "ok" THEN r
         ELSE ArrayLoopReversed(buf, r.off, tag, names, imps, exps, n - 1,
                                <<r.v>> \o acc))

ArrayLoop(buf, off, tag, names, imps, exps, n, acc) ==
    IF n <= 0 THEN POk(off, VArr(acc))
    ELSE With(ArrayElement(buf, off, tag, names, imps, exps), LAMBDA r :
         IF r.st # "ok" THEN r
         ELSE ArrayLoop(buf, r.off, tag, names, imps, exps, n - 1,
                        Append(acc, r.v)))

\* readArray: an element type it does not know pushes nothing and reads
\* nothing, whatever the count
readArray(buf, off, tag, names, imps, exps) ==
    With(PreadInt32(buf, off), LAMBDA c :
    IF c.st # "ok" THEN c
    ELSE IF tag.InnerType \notin ArrayInnerTypes THEN POk(c.off, VArr(<<>>))
    ELSE ArrayLoop(buf, c.off, tag, names, imps, exps, c.v, <<>>))

readPropertyValue(buf, off, tag, names, imps, exps) ==
    IF tag.Type = T_BoolProperty THEN POk(off, VBool(tag.BoolVal))
    ELSE IF tag.Type = T_ByteProperty
    THEN IF Truthy(tag.EnumName) /\ tag.EnumName # S_None
         THEN Wrap(PreadName(buf, off, names), VStr)
         ELSE Wrap(PreadUInt8(buf, off), VInt)
    ELSE IF tag.Type \in {T_IntProperty, T_Int32Property, T_ObjectProperty,
                          T_InterfaceProperty}
    THEN Wrap(PreadInt32(buf, off), VInt)
    ELSE IF tag.Type = T_Int64Property THEN PreadInt64(buf, off)
    ELSE IF tag.Type = T_Int16Property THEN PreadInt16(buf, off)
    ELSE IF tag.Type = T_Int8Property THEN PreadInt8(buf, off)
    ELSE IF tag.Type = T_UInt32Property THEN PreadUInt32(buf, off)
    ELSE IF tag.Type = T_UInt64Property THEN PreadUInt64(buf, off)
    ELSE IF tag.Type = T_UInt16Property THEN PreadUInt16(buf, off)
    ELSE IF tag.Type = T_FloatProperty THEN PreadFloat(buf, off)
    ELSE IF tag.Type = T_DoubleProperty THEN PreadDouble(buf, off)
    ELSE IF tag.Type = T_NameProperty
    THEN Wrap(PreadName(buf, off, names), VStr)
    ELSE IF tag.Type \in {T_StrProperty, T_TextProperty}
    THEN Wrap(PreadString(buf, off), VStr)
    ELSE IF tag.Type = T_SoftObjectProperty
    THEN With(PreadName(buf, off, names), LAMBDA a :
         IF a.st # "ok" THEN a
         ELSE With(PreadString(buf, a.off), LAMBDA s :
              IF s.st # "ok" THEN s
              ELSE POk(s.off, VObj(<<KV(K_AssetPathName, VStr(a.v)),
                                     KV(K_SubPathString, VStr(s.v))>>))))
    ELSE IF tag.Type = T_StructProperty
    THEN readStruct(buf, off, tag, names, imps, exps)
    ELSE IF tag.Type = T_ArrayProperty
    THEN readArray(buf, off, tag, names, imps, exps)
    ELSE IF tag.Type = T_MapProperty THEN readMap(buf, off)
    ELSE IF tag.Type = T_DelegateProperty THEN ReadDelegate(buf, off, names)
    ELSE IF tag.Type = T_MulticastDelegateProperty
    THEN With(PreadInt32(buf, off), LAMBDA c :
         IF c.st # "ok" THEN c
         ELSE DelegateLoop(buf, c.off, names, c.v, <<>>))
    ELSE Wrap(PreadBytes(buf, off, tag.Size), VBuf)


-----------------------------------------------------------------------------
(* UAssetParser.convertToUTXT: keys and strings of the document.           *)

\* "GatherableTextData"
K_GatherableTextData == <<71, 97, 116, 104, 101, 114, 97, 98, 108, 101, 84, 101, 120, 116, 68, 97, 116, 97>>
\* "Thumbnails"
K_Thumbnails == <<84, 104, 117, 109, 98, 110, 97, 105, 108, 115>>
\* "Index"
K_Index == <<73, 110, 100, 101, 120>>
\* "Exports"
K_Exports == <<69, 120, 112, 111, 114, 116, 115>>
\* "ImageWidth"
K_ImageWidth == <<73, 109, 97, 103, 101, 87, 105, 100, 116, 104>>
\* "ImageHeight"
K_ImageHeight == <<73, 109, 97, 103, 101, 72, 101, 105, 103, 104, 116>>
\* "CompressedImageData"
K_CompressedImageData == <<67, 111, 109, 112, 114, 101, 115, 115, 101, 100, 73, 109, 97, 103, 101, 68, 97, 116, 97>>
\* "Base64:"
S_Base64Colon == <<66, 97, 115, 101, 54, 52, 58>>
\* "ObjectClassName"
K_ObjectClassName == <<79, 98, 106, 101, 99, 116, 67, 108, 97, 115, 115, 78, 97, 109, 101>>
\* "WidgetBlueprint"
S_WidgetBlueprint == <<87, 105, 100, 103, 101, 116, 66, 108, 117, 101, 112, 114, 105, 110, 116>>
\* "ObjectPathWithoutPackageName"
K_ObjectPathWithoutPackageName == <<79, 98, 106, 101, 99, 116, 80, 97, 116, 104, 87, 105, 116, 104, 111, 117, 116, 80, 97, 99, 107, 97, 103, 101, 78, 97, 109, 101>>
\* "FileOffset"
K_FileOffset == <<70, 105, 108, 101, 79, 102, 102, 115, 101, 116>>
\* "__Class"
K___Class == <<95, 95, 67, 108, 97, 115, 115>>
\* "__ObjectFlags"
K___ObjectFlags == <<95, 95, 79, 98, 106, 101, 99, 116, 70, 108, 97, 103, 115>>
\* "__Outer"
K___Outer == <<95, 95, 79, 117, 116, 101, 114>>
\* "__bNotForClient"
K___bNotForClient == <<95, 95, 98, 78, 111, 116, 70, 111, 114, 67, 108, 105, 101, 110, 116>>
\* "__bNotForServer"
K___bNotForServer == <<95, 95, 98, 78, 111, 116, 70, 111, 114, 83, 101, 114, 118, 101, 114>>
\* "__bIsAsset"
K___bIsAsset == <<95, 95, 98, 73, 115, 65, 115, 115, 101, 116>>
\* "RawData"
K_RawData == <<82, 97, 119, 68, 97, 116, 97>>
\* "Digest"
K_Digest == <<68, 105, 103, 101, 115, 116>>
\* "Base64"
K_Base64 == <<66, 97, 115, 101, 54, 52>>
\* "SimpleConstructionScript"
K_SimpleConstructionScript == <<83, 105, 109, 112, 108, 101, 67, 111, 110, 115, 116, 114, 117, 99, 116, 105, 111, 110, 83, 99, 114, 105, 112, 116>>
\* "Class /Script/Engine.SimpleConstructionScript"
S_ClassSimpleConstructionScript == <<67, 108, 97, 115, 115, 32, 47, 83, 99, 114, 105, 112, 116, 47, 69, 110, 103, 105, 110, 101, 46, 83, 105, 109, 112, 108, 101, 67, 111, 110, 115, 116, 114, 117, 99, 116, 105, 111, 110, 83, 99, 114, 105, 112, 116>>
\* "RootNodes"
K_RootNodes == <<82, 111, 111, 116, 78, 111, 100, 101, 115>>
\* "AllNodes"
K_AllNodes == <<65, 108, 108, 78, 111, 100, 101, 115>>
\* "DefaultSceneRoot"
K_DefaultSceneRoot == <<68, 101, 102, 97, 117, 108, 116, 83, 99, 101, 110, 101, 82, 111, 111, 116>>
\* "Class /Script/Engine.SceneComponent"
S_ClassSceneComponent == <<67, 108, 97, 115, 115, 32, 47, 83, 99, 114, 105, 112, 116, 47, 69, 110, 103, 105, 110, 101, 46, 83, 99, 101, 110, 101, 67, 111, 109, 112, 111, 110, 101, 110, 116>>
\* "RelativeLocation"
K_RelativeLocation == <<82, 101, 108, 97, 116, 105, 118, 101, 76, 111, 99, 97, 116, 105, 111, 110>>
\* "RelativeRotation"
K_RelativeRotation == <<82, 101, 108, 97, 116, 105, 118, 101, 82, 111, 116, 97, 116, 105, 111, 110>>
\* "RelativeScale3D"
K_RelativeScale3D == <<82, 101, 108, 97, 116, 105, 118, 101, 83, 99, 97, 108, 101, 51, 68>>
\* "BaseClassAutoGen"
K_BaseClassAutoGen == <<66, 97, 115, 101, 67, 108, 97, 115, 115, 65, 117, 116, 111, 71, 101, 110>>
\* "Data"
K_Data == <<68, 97, 116, 97>>
\* "Objects"
K_Objects == <<79, 98, 106, 101, 99, 116, 115>>
\* "Names"
K_Names == <<78, 97, 109, 101, 115>>

-----------------------------------------------------------------------------
(* Base64 and the digest.                                                  *)

\* the character of a 6-bit value in the base64 alphabet
B64Char(v) ==
    IF v < 26 THEN 65 + v
    ELSE IF v < 52 THEN 97 + (v - 26)
    ELSE IF v < 62 THEN 48 + (v - 52)
    ELSE IF v = 62 THEN 43 ELSE 47

\* buffer.toString('base64')
ToBase64(bytes) ==
    LET n == Len(bytes)
        B(i) == IF i <= n THEN bytes[i] ELSE 0
        Quad(g) ==
            LET a == B(3 * g - 2)
                b == B(3 * g - 1)
                c == B(3 * g)
            IN  <<B64Char(a \div 4),
                  B64Char((a % 4) * 16 + (b \div 16)),
                  IF 3 * g - 1 > n THEN 61
                  ELSE B64Char((b % 16) * 4 + (c \div 64)),
                  IF 3 * g > n THEN 61 ELSE B64Char(c % 64)>>
    IN  [k \in 1..(4 * ((n + 2) \div 3)) |->
            Quad(((k - 1) \div 4) + 1)[((k - 1) % 4) + 1]]

\* a variant that cuts chunks of 75 characters
Chunks75(bytes) ==
    LET base64 == ToBase64(bytes)
    IN  [c \in 1..((Len(base64) + 74) \div 75) |->
            SubSeq(base64, 75 * (c - 1) + 1, Min(75 * c, Len(base64)))]

\* bufferToBase64Chunks: substrings of 76 characters
bufferToBase64Chunks(bytes) ==
    LET base64 == ToBase64(bytes)
    IN  [c \in 1..((Len(base64) + 75) \div 76) |->
            SubSeq(base64, 76 * (c - 1) + 1, Min(76 * c, Len(base64)))]

\* a hexadecimal digit, lower case
HexChar(v) == IF v < 10 THEN 48 + v ELSE 97 + (v - 10)

\* buffer.toString('hex')
ToHex(bytes) ==
    [k \in 1..(2 * Len(bytes)) |->
        HexChar(IF k % 2 = 1 THEN bytes[(k + 1) \div 2] \div 16
                ELSE bytes[k \div 2] % 16)]

\* generateHash keeps a 32-bit hash: here <<high 16 bits, low 16 bits>> of
\* its two's complement.  One step is hash * 31 + char, truncated.
HashStep(h, char) ==
    LET lo == 31 * h[2] + char
        hi == 31 * h[1] + (lo \div 65536)
    IN  <<hi % 65536, lo % 65536>>

\* the loop over input[lo..hi] started with hash h.  The range is halved
\* and the left half is folded to a value before the right half starts, so
\* the evaluation never nests deeper than the logarithm of the length.
RECURSIVE HashFold(_, _, _, _)
HashFold(input, lo, hi, h) ==
    IF lo > hi THEN h
    ELSE IF lo = hi THEN HashStep(h, input[lo])
    ELSE LET mid == (lo + hi) \div 2
         IN  CHOOSE r \in {HashFold(input, mid + 1, hi, left) :
                               left \in {HashFold(input, lo, mid, h)}} : TRUE

\* Math.abs(hash).toString(16).padStart(40, '0')
generateHash(input) ==
    LET h == HashFold(input, 1, Len(input), <<0, 0>>)
        neg == h[1] >= 32768
        lo == IF neg THEN (65536 - h[2]) % 65536 ELSE h[2]
        hi == IF neg THEN (65535 - h[1] + (IF h[2] = 0 THEN 1 ELSE 0)) % 65536
              ELSE h[1]
        Nib(x, k) == HexChar((x \div k) % 16)
    IN  [i \in 1..32 |-> 48] \o
        <<Nib(hi, 4096), Nib(hi, 256), Nib(hi, 16), Nib(hi, 1),
          Nib(lo, 4096), Nib(lo, 256), Nib(lo, 16), Nib(lo, 1)>>


-----------------------------------------------------------------------------
(* UAssetParser.convertToUTXT: the package name.                           *)

\* [A-Za-z0-9_]
IsWordChar(c) ==
    \/ c \in 65..90
    \/ c \in 97..122
    \/ c \in 48..57
    \/ c = 95

\* p occurs in s at position i (1-based)
SubAt(s, i, p) == i + Len(p) - 1 <= Len(s) /\ SubSeq(s, i, i + Len(p) - 1) = p

\* s matches /^(WBP_[A-Za-z0-9_]+|BP_[A-Za-z0-9_]+)$/
MatchesWholeBP(s) ==
    /\ \/ StartsWith(s, S_WBP_) /\ Len(s) > 4
       \/ StartsWith(s, S_BP_) /\ Len(s) > 3
    /\ \A i \in 1..Len(s) : IsWordChar(s[i])

\* the first match of /(WBP_[A-Za-z0-9_]+|BP_[A-Za-z0-9_]+)/ in s, or
\* Undefined
FirstBPMatch(s) ==
    LET P == {p \in 1..Len(s) :
                \/ SubAt(s, p, S_WBP_) /\ p + 4 <= Len(s) /\ IsWordChar(s[p + 4])
                \/ SubAt(s, p, S_BP_) /\ p + 3 <= Len(s) /\ IsWordChar(s[p + 3])}
    IN  IF P = {} THEN Undefined
        ELSE LET p == CHOOSE q \in P : \A r \in P : q <= r
                 E == {e \in p..Len(s) :
                         /\ \A i \in p..e : IsWordChar(s[i])
                         /\ e = Len(s) \/ ~IsWordChar(s[e + 1])}
             IN  SubSeq(s, p, CHOOSE e \in E : TRUE)

\* name.replace(/_C$/, '')
StripC(s) == IF EndsWith(s, S__C) THEN SubSeq(s, 1, Len(s) - 2) ELSE s

\* the name the "last resort" loop takes from one export name, or Undefined
LastResortName(objectName) ==
    LET m == FirstBPMatch(objectName)
    IN  IF m = Undefined THEN Undefined
        ELSE LET n1 == StripC(m)
                 n2 == IF StartsWith(n1, S_Default__)
                       THEN SubSeq(n1, Len(S_Default__) + 1, Len(n1)) ELSE n1
                 n3 == IF StartsWith(n2, S_ExecuteUbergraph_)
                       THEN SubSeq(n2, Len(S_ExecuteUbergraph_) + 1, Len(n2))
                       ELSE n2
             IN  IF StartsWith(n3, S_WBP_) \/ StartsWith(n3, S_BP_) THEN n3
                 ELSE Undefined

\* the first index of a sequence that satisfies a test, 0 if none
FirstIndex(seq, Test(_)) ==
    LET I == {i \in 1..Len(seq) : Test(seq[i])}
    IN  IF I = {} THEN 0 ELSE CHOOSE i \in I : \A j \in I : i <= j

IsBlueprintExport(exp) ==
    /\ exp.bIsAsset
    /\ StartsWith(exp.ObjectName, S_WBP_) \/ StartsWith(exp.ObjectName, S_BP_)
    /\ ~Includes(exp.ObjectName, S_ExecuteUbergraph)
    /\ ~Includes(exp.ObjectName, S_Default__)
    /\ ~EndsWith(exp.ObjectName, S__C)

IsCandidateExport(exp) == MatchesWholeBP(exp.ObjectName)

HasLastResort(exp) == LastResortName(exp.ObjectName) # Undefined

detectPackageName(exps) ==
    LET b == FirstIndex(exps, IsBlueprintExport)
        c == FirstIndex(exps, IsCandidateExport)
        l == FirstIndex(exps, HasLastResort)
    IN  IF b # 0 THEN exps[b].ObjectName
        ELSE IF c # 0 THEN exps[c].ObjectName
        ELSE IF l # 0 THEN LastResortName(exps[l].ObjectName)
        ELSE S_Unknown

-----------------------------------------------------------------------------
(* UAssetParser.buildFullExportName and getExportClassName.                *)

\* The walk up the outer chain from export index idx (0-based) with the
\* parts collected so far; seen holds the indexes visited: the walk's next
\* step is a function of the index, so a repeated index never ends.
\* a walk that collects the names from innermost to outermost
RECURSIVE InnerFirstWalk(_, _, _, _)
InnerFirstWalk(exps, idx, parts, seen) ==
    LET current == exps[idx + 1]
        parts2 == IF ~StartsWith(current.ObjectName, S_ExecuteUbergraph)
                     /\ ~StartsWith(current.ObjectName, S_Default__)
                  THEN parts \o <<current.ObjectName>> ELSE parts
    IN  IF current.OuterIndex > 0 /\ current.OuterIndex - 1 < Len(exps)
        THEN IF (current.OuterIndex - 1) \in (seen \cup {idx})
             THEN [st |-> "diverges", v |-> <<>>]
             ELSE InnerFirstWalk(exps, current.OuterIndex - 1, parts2,
                                 seen \cup {idx})
        ELSE [st |-> "ok", v |-> Join(parts2, <<46>>)]

buildInnerFirstName(exps, exportIndex) == InnerFirstWalk(exps, exportIndex, <<>>, {})

RECURSIVE OuterWalk(_, _, _, _)
OuterWalk(exps, idx, parts, seen) ==
    LET current == exps[idx + 1]
        parts2 == IF ~StartsWith(current.ObjectName, S_ExecuteUbergraph)
                     /\ ~StartsWith(current.ObjectName, S_Default__)
                  THEN <<current.ObjectName>> \o parts ELSE parts
    IN  IF current.OuterIndex > 0 /\ current.OuterIndex - 1 < Len(exps)
        THEN IF (current.OuterIndex - 1) \in (seen \cup {idx})
             THEN [st |-> "diverges", v |-> <<>>]
             ELSE OuterWalk(exps, current.OuterIndex - 1, parts2,
                            seen \cup {idx})
        ELSE [st |-> "ok", v |-> Join(parts2, <<46>>)]

buildFullExportName(exps, exportIndex) == OuterWalk(exps, exportIndex, <<>>, {})

umgClasses ==
    <<S_CanvasPanel, S_CanvasPanelSlot, S_WidgetTree,
      S_WidgetBlueprintGeneratedClass, S_Image, S_TextBlock, S_Button,
      S_HorizontalBox, S_VerticalBox, S_Overlay, S_ScrollBox, S_GridPanel,
      S_UniformGridPanel, S_OverlaySlot, S_HorizontalBoxSlot,
      S_VerticalBoxSlot, S_SizeBox, S_SizeBoxSlot>>

\* match[1] of /\/Script\/([^./]+)/ on s, or Undefined
ScriptPackageMatch(s) ==
    LET P == {p \in 1..Len(s) :
                /\ SubAt(s, p, S_Script)
                /\ p + 8 <= Len(s)
                /\ s[p + 8] \notin {46, 47}}
    IN  IF P = {} THEN Undefined
        ELSE LET p == (CHOOSE q \in P : \A r \in P : q <= r) + 8
                 E == {e \in p..Len(s) :
                         /\ \A i \in p..e : s[i] \notin {46, 47}
                         /\ e = Len(s) \/ s[e + 1] \in {46, 47}}
             IN  SubSeq(s, p, CHOOSE e \in E : TRUE)

importClassName(imp) ==
    LET className == imp.ObjectName
        baseName == StripC(className)
    IN  IF InList(umgClasses, className) THEN S_ClassScriptUMGDot \o className
        ELSE IF StartsWith(className, S_WGT_) \/ StartsWith(className, S_WBP_)
        THEN S_ClassScriptUMGUserWidget
        ELSE IF EndsWith(className, S__C)
                \/ className = S_WidgetBlueprintGeneratedClass
        THEN IF StartsWith(baseName, S_WBP_) \/ StartsWith(baseName, S_WGT_)
             THEN S_ClassScriptUMGWBGC
             ELSE S_ClassScriptEngineBGC
        ELSE IF StartsWith(className, S_K2Node_)
        THEN S_ClassScriptBlueprintGraphDot \o className
        ELSE IF StartsWith(className, S_EdGraph)
        THEN S_ClassScriptEngineDot \o className
        ELSE IF imp.ClassName # <<>> /\ Includes(imp.ClassName, S_Script)
                /\ ScriptPackageMatch(imp.ClassName) # Undefined
        THEN S_ClassScript \o ScriptPackageMatch(imp.ClassName) \o <<46>>
             \o className
        ELSE S_ClassScriptEngineDot \o className

getExportClassName(exp, imps, exps) ==
    IF exp.ClassIndex < 0 /\ Abs32(exp.ClassIndex) - 1 < Len(imps)
    THEN importClassName(imps[Abs32(exp.ClassIndex)])
    ELSE IF exp.ClassIndex > 0 /\ exp.ClassIndex - 1 < Len(exps)
    THEN S_ClassSp \o exps[exp.ClassIndex].ObjectName
    ELSE S_ClassScriptEngineBlueprint


-----------------------------------------------------------------------------
(* UAssetParser.processExport, parseExportData, addBlueprintData.          *)

\* readExportData: buffer.slice(offset, offset + size)
readExportData(buf, exp) ==
    BufSlice(buf, exp.SerialOffset, SatAdd(exp.SerialOffset, exp.SerialSize))

StrArr(strs) == VArr([i \in 1..Len(strs) |-> VStr(strs[i])])

\* data.RawData
RawDataOf(bytes) ==
    VObj(<<KV(K_Digest, VStr(generateHash(SubSeq(ToHex(bytes), 1,
                                                 Min(100, 2 * Len(bytes)))))),
           KV(K_Base64, StrArr(bufferToBase64Chunks(bytes)))>>)

\* parseExportData, were a decode that failed to end the conversion
\* instead of being caught
parseExportDataUncaught(bytes, names, imps, exps) ==
    With(deserializeProperties(bytes, names, imps, exps), LAMBDA d :
    IF d.st # "done" THEN [st |-> "diverges", v |-> VUndef]
    ELSE [st |-> "ok",
          v |-> VObj(<<KV(K_RawData, RawDataOf(bytes))>>
                     \o IF Len(d.Properties) > 0
                        THEN <<KV(K_Properties, VObj(d.Properties))>>
                        ELSE <<>>)])

\* parseExportData: [st, v], st "diverges" when the property decoder
\* never returns
parseExportData(bytes, names, imps, exps) ==
    With(deserializeProperties(bytes, names, imps, exps), LAMBDA d :
    IF d.st = "diverges" THEN [st |-> "diverges", v |-> VUndef]
    ELSE [st |-> "ok",
          v |-> VObj(<<KV(K_RawData, RawDataOf(bytes))>>
                     \o IF Len(d.Properties) > 0
                        THEN <<KV(K_Properties, VObj(d.Properties))>>
                        ELSE <<>>)])

Vec3(a, b, c, x) == VObj(<<KV(a, VInt(x)), KV(b, VInt(x)), KV(c, VInt(x))>>)

\* addBlueprintData on exportData.__Value (an ordered object)
addBlueprintData(value, buf, exp, names, imps) ==
    LET v1 == ObjSet(value, K_SimpleConstructionScript,
                VObj(<<KV(K___Class, VStr(S_ClassSimpleConstructionScript)),
                       KV(K___ObjectFlags, VInt(0)),
                       KV(K___Value, VObj(<<KV(K_RootNodes, VArr(<<>>)),
                                            KV(K_AllNodes, VArr(<<>>))>>))>>))
        v2 == ObjSet(v1, K_DefaultSceneRoot,
                VObj(<<KV(K___Class, VStr(S_ClassSceneComponent)),
                       KV(K___ObjectFlags, VInt(0)),
                       KV(K___Value,
                          VObj(<<KV(K_RelativeLocation, Vec3(K_X, K_Y, K_Z, 0)),
                                 KV(K_RelativeRotation,
                                    Vec3(K_Pitch, K_Yaw, K_Roll, 0)),
                                 KV(K_RelativeScale3D,
                                    Vec3(K_X, K_Y, K_Z, 1))>>))>>))
    IN  ObjSet(v2, K_BaseClassAutoGen,
            VObj(<<KV(K_Data,
                      VObj(<<KV(K_Digest, VStr(generateHash(exp.ObjectName))),
                             KV(K_Base64,
                                StrArr(bufferToBase64Chunks(
                                           readExportData(buf, exp))))>>)),
                   KV(K_Objects,
                      StrArr([i \in 1..Len(imps) |-> imps[i].ObjectName])),
                   KV(K_Names, StrArr(names))>>))

\* the __Outer entry of an export, or <<>> when it gets none;
\* [st, v] with st "diverges" when the outer chain is a cycle
OuterEntry(exp, imps, exps, pkgName) ==
    IF exp.OuterIndex > 0 /\ exp.OuterIndex - 1 < Len(exps)
    THEN LET outerExport == exps[exp.OuterIndex]
             outerFullName == buildFullExportName(exps, exp.OuterIndex - 1)
             outerClass == getExportClassName(outerExport, imps, exps)
         IN  IF outerFullName.st = "diverges"
             THEN [st |-> "diverges", v |-> <<>>]
             ELSE IF outerExport.ObjectName = S_WidgetTree
             THEN [st |-> "ok",
                   v |-> <<KV(K___Outer,
                              VStr(S_WidgetTreeOuterPrefix \o pkgName
                                   \o <<46>> \o pkgName
                                   \o S_ColonWidgetTree))>>]
             ELSE [st |-> "ok",
                   v |-> <<KV(K___Outer,
                              VStr(ReplaceFirst(outerClass, S_ClassScript, <<>>)
                                   \o S_OuterPathPrefix \o pkgName
                                   \o <<46>> \o pkgName \o <<58>>
                                   \o outerFullName.v))>>]
    ELSE IF exp.OuterIndex < 0 /\ Abs32(exp.OuterIndex) - 1 < Len(imps)
    THEN [st |-> "ok",
          v |-> <<KV(K___Outer,
                     VStr(imps[Abs32(exp.OuterIndex)].ClassName \o <<32>>
                          \o imps[Abs32(exp.OuterIndex)].ObjectName))>>]
    ELSE [st |-> "ok", v |-> <<>>]

\* a variant that looks at the serial size only
HasSerialSize(exp) == exp.SerialSize > 0

\* the export has a byte range processExport reads
HasSerialData(exp) == exp.SerialSize > 0 /\ exp.SerialOffset > 0

\* processExport: [st, v]
processExport(buf, exp, names, imps, exps, pkgName) ==
    With(getExportClassName(exp, imps, exps), LAMBDA className :
    With(OuterEntry(exp, imps, exps, pkgName), LAMBDA outer :
    With(IF HasSerialData(exp)
         THEN parseExportData(readExportData(buf, exp), names, imps, exps)
         ELSE [st |-> "ok", v |-> VObj(<<>>)],
    LAMBDA data :
    IF outer.st = "diverges" \/ data.st = "diverges"
    THEN [st |-> "diverges", v |-> VUndef]
    ELSE [st |-> "ok",
          v |-> VObj(<<KV(K___Class, VStr(className)),
                       KV(K___ObjectFlags, VU32(exp.PackageFlags))>>
                     \o outer.v
                     \o <<KV(K___bNotForClient, VBool(exp.bNotForClient)),
                          KV(K___bNotForServer, VBool(exp.bNotForServer)),
                          KV(K___bIsAsset, VBool(exp.bIsAsset)),
                          KV(K___Value,
                             IF Includes(className, S_Blueprint)
                                /\ ~Includes(className, S_Widget)
                             THEN VObj(addBlueprintData(data.v.kv, buf, exp,
                                                        names, imps))
                             ELSE data.v)>>)])))

\* the key convertToUTXT files export i (0-based) under: [st, v]
exportKey(exps, i, pkgName) ==
    LET exp == exps[i + 1]
        built == buildFullExportName(exps, i)
        fullName == built.v
        parts == Split(fullName, 46)
    IN  IF built.st = "diverges" THEN built
        ELSE [st |-> "ok",
              v |-> IF StartsWith(exp.ObjectName, S_ExecuteUbergraph)
                    THEN exp.ObjectName
                    ELSE IF EndsWith(exp.ObjectName, S__C) THEN exp.ObjectName
                    ELSE IF exp.ObjectName = S_WidgetTree
                    THEN pkgName \o S_ColonWidgetTree
                    ELSE IF StartsWith(fullName, S_WidgetTreeDot)
                    THEN pkgName \o <<58>> \o fullName
                    ELSE IF Includes(fullName, S_DotWidgetTreeDot)
                    THEN IF parts[1] = pkgName \/ EndsWith(parts[1], S__C)
                         THEN parts[1] \o <<58>> \o Join(Tail(parts), <<46>>)
                         ELSE fullName
                    ELSE IF exp.ObjectName = pkgName THEN pkgName
                    ELSE IF StartsWith(exp.ObjectName, S_Default__)
                    THEN exp.ObjectName
                    ELSE fullName]

\* the Thumbnails object convertToUTXT ends with
IsGeneratedClass(exp) ==
    EndsWith(exp.ObjectName, S__C) \/ Includes(exp.ObjectName, S_GeneratedClass)

EmptyThumbnail ==
    VObj(<<KV(K_ImageWidth, VInt(0)), KV(K_ImageHeight, VInt(0)),
           KV(K_CompressedImageData, VStr(S_Base64Colon))>>)

ThumbnailIndex(className, path) ==
    VObj(<<KV(K_ObjectClassName, VStr(className)),
           KV(K_ObjectPathWithoutPackageName, VStr(path)),
           KV(K_FileOffset, VInt(0))>>)

thumbnailsOf(exps, pkgName) ==
    LET one == Len(exps) > 0
        two == one /\ FirstIndex(exps, IsGeneratedClass) # 0
    IN  VObj(<<KV(K_Thumbnails,
                  VArr((IF one THEN <<EmptyThumbnail>> ELSE <<>>)
                       \o (IF two THEN <<EmptyThumbnail>> ELSE <<>>))),
               KV(K_Index,
                  VArr((IF one
                        THEN <<ThumbnailIndex(S_WidgetBlueprint, pkgName)>>
                        ELSE <<>>)
                       \o (IF two
                           THEN <<ThumbnailIndex(S_WidgetBlueprintGeneratedClass,
                                                 pkgName \o S__C)>>
                           ELSE <<>>)))>>)

\* the document convertToUTXT starts from
utxt0 ==
    VObj(<<KV(K_GatherableTextData, VArr(<<>>)),
           KV(K_Thumbnails, thumbnailsOf(<<>>, <<>>)),
           KV(K_Exports, VObj(<<>>))>>)


-----------------------------------------------------------------------------
(* The document as JavaScript sees it: truthiness, property access, key    *)
(* order, and the trip through JSON.stringify and JSON.parse.              *)

VNull == [t |-> "null"]

\* the value is a float or double zero or NaN (its bytes, least
\* significant first)
FloatFalsy(v) ==
    LET n == Len(v.bits)
        expAll == IF n = 4 THEN v.bits[4] % 128 = 127 /\ v.bits[3] >= 128
                  ELSE v.bits[8] % 128 = 127 /\ v.bits[7] >= 240
        mantZero == IF n = 4
                    THEN v.bits[1] = 0 /\ v.bits[2] = 0 /\ v.bits[3] % 128 = 0
                    ELSE (\A i \in 1..6 : v.bits[i] = 0) /\ v.bits[7] % 16 = 0
        expZero == IF n = 4 THEN v.bits[4] % 128 = 0 /\ v.bits[3] < 128
                   ELSE v.bits[8] % 128 = 0 /\ v.bits[7] < 16
    IN  (expZero /\ mantZero) \/ (expAll /\ ~mantZero)

\* NaN or an infinity: JSON.stringify prints null
FloatNonFinite(v) ==
    IF Len(v.bits) = 4 THEN v.bits[4] % 128 = 127 /\ v.bits[3] >= 128
    ELSE v.bits[8] % 128 = 127 /\ v.bits[7] >= 240

\* if (v)
JsTruthy(v) ==
    CASE v.t = "bool" -> v.v
      [] v.t = "int" -> v.v # 0
      [] v.t = "u32" -> v.v # U32Zero
      [] v.t = "str" -> v.v # <<>>
      [] v.t \in {"float", "double"} -> ~FloatFalsy(v)
      [] v.t \in {"null", "undef"} -> FALSE
      [] OTHER -> TRUE

\* v[key] and v?.[key]: undefined unless v is an object that has the key
Get(v, key) ==
    IF v.t = "obj" /\ ObjHas(v.kv, key) THEN ObjVal(v.kv, key) ELSE VUndef

\* a canonical array index ("0", "7", "12"): such keys come first, in
\* ascending order, when an object's keys are enumerated
IsIndexKey(k) ==
    /\ Len(k) > 0
    /\ Len(k) < 10
    /\ \A i \in 1..Len(k) : k[i] \in 48..57
    /\ Len(k) = 1 \/ k[1] # 48

RECURSIVE IndexKeyValue(_)
IndexKeyValue(k) ==
    IF Len(k) = 0 THEN 0
    ELSE 10 * IndexKeyValue(SubSeq(k, 1, Len(k) - 1)) + (k[Len(k)] - 48)

\* the entries of an object in enumeration order (for-in, Object.keys,
\* JSON.stringify)
RECURSIVE SortIndexEntries(_)
SortIndexEntries(kv) ==
    IF Len(kv) = 0 THEN <<>>
    ELSE LET m == CHOOSE i \in 1..Len(kv) :
                     \A j \in 1..Len(kv) :
                        IndexKeyValue(kv[i].k) <= IndexKeyValue(kv[j].k)
         IN  <<kv[m]>> \o SortIndexEntries(
                 [i \in 1..(Len(kv) - 1) |-> IF i < m THEN kv[i] ELSE kv[i + 1]])

Entries(kv) ==
    SortIndexEntries(SelectSeq(kv, LAMBDA e : IsIndexKey(e.k)))
    \o SelectSeq(kv, LAMBDA e : ~IsIndexKey(e.k))

\* JSON.stringify throws on a BigInt anywhere in the tree
RECURSIVE HasBigInt(_)
HasBigInt(v) ==
    CASE v.t = "big" -> TRUE
      [] v.t = "arr" -> \E i \in 1..Len(v.items) : HasBigInt(v.items[i])
      [] v.t = "obj" -> \E i \in 1..Len(v.kv) : HasBigInt(v.kv[i].v)
      [] OTHER -> FALSE

K_type == <<116, 121, 112, 101>>
K_data == <<100, 97, 116, 97>>
S_Buffer == <<66, 117, 102, 102, 101, 114>>

\* JSON.parse(JSON.stringify(v)) for a tree without BigInt: undefined
\* members vanish (null inside arrays), a Map prints {}, a Buffer prints
\* {type, data}, NaN and the infinities print null
RECURSIVE Jsonify(_)
Jsonify(v) ==
    CASE v.t = "arr" ->
            VArr([i \in 1..Len(v.items) |->
                    IF v.items[i].t = "undef" THEN VNull
                    ELSE Jsonify(v.items[i])])
      [] v.t = "obj" ->
            LET kept == SelectSeq(Entries(v.kv), LAMBDA e : e.v.t # "undef")
            IN  VObj([i \in 1..Len(kept) |-> KV(kept[i].k, Jsonify(kept[i].v))])
      [] v.t = "map" -> VObj(<<>>)
      [] v.t = "buf" ->
            VObj(<<KV(K_type, VStr(S_Buffer)),
                   KV(K_data, VArr([i \in 1..Len(v.bytes) |-> VInt(v.bytes[i])]))>>)
      [] v.t \in {"float", "double"} ->
            IF FloatNonFinite(v) THEN VNull ELSE v
      [] OTHER -> v

-----------------------------------------------------------------------------
(* Bytes the writer produces.                                              *)

\* writeInt32LE
I32LE(v) ==
    <<v % 256, (v \div 256) % 256, (v \div 65536) % 256,
      (v \div 16777216) % 256>>

\* writeUInt32LE of a value held as four base-256 digits, most
\* significant first
U32LE(d) == <<d[4], d[3], d[2], d[1]>>

\* writeUInt16LE
U16LE(v) == <<v % 256, (v \div 256) % 256>>

\* writeBigInt64LE(BigInt(v)) for a number v
I64LE(v) == I32LE(v) \o (IF v < 0 THEN <<255, 255, 255, 255>> ELSE <<0, 0, 0, 0>>)

\* a test that takes every code unit below 256 for a single-byte character
IsWide(str) == \E i \in 1..Len(str) : str[i] > 255

\* /[^\x00-\x7F]/.test(str)
IsUnicode(str) == \E i \in 1..Len(str) : str[i] > 127

\* the bytes writeFString appends
FStringBytes(str) ==
    IF Len(str) = 0 THEN I32LE(0)
    ELSE IF IsUnicode(str)
    THEN I32LE(-(Len(str) + 1))
         \o [i \in 1..(2 * Len(str)) |->
                IF i % 2 = 1 THEN str[(i + 1) \div 2] % 256
                ELSE str[i \div 2] \div 256]
         \o <<0, 0>>
    ELSE I32LE(Len(str) + 1) \o [i \in 1..Len(str) |-> str[i] % 256] \o <<0>>

\* writeFName
FNameBytes(nameIndex, instanceNumber) == I32LE(nameIndex) \o I32LE(instanceNumber)

\* the value of a base64 character, -1 for any other character; Node
\* accepts the URL-safe '-' and '_' too
B64Value(c) ==
    IF c \in 65..90 THEN c - 65
    ELSE IF c \in 97..122 THEN c - 71
    ELSE IF c \in 48..57 THEN c + 4
    ELSE IF c = 43 \/ c = 45 THEN 62
    ELSE IF c = 47 \/ c = 95 THEN 63
    ELSE -1

\* Buffer.from(str, 'base64'): decoding stops at the first '=', other
\* characters outside the alphabet are skipped, a trailing group of two
\* or three characters gives one or two bytes
FromBase64(str) ==
    LET P == {i \in 1..Len(str) : str[i] = 61}
        stop == IF P = {} THEN Len(str) + 1 ELSE CHOOSE i \in P : \A j \in P : i <= j
        sx == SelectSeq(SubSeq(str, 1, stop - 1), LAMBDA c : B64Value(c) >= 0)
        n == Len(sx)
        nbytes == 3 * (n \div 4)
                  + (IF n % 4 = 2 THEN 1 ELSE IF n % 4 = 3 THEN 2 ELSE 0)
        V(i) == IF i <= n THEN B64Value(sx[i]) ELSE 0
        Byte(k) ==
            LET g == 4 * ((k - 1) \div 3)
                r == (k - 1) % 3
            IN  IF r = 0 THEN V(g + 1) * 4 + (V(g + 2) \div 16)
                ELSE IF r = 1 THEN (V(g + 2) % 16) * 16 + (V(g + 3) \div 4)
                ELSE (V(g + 3) % 4) * 64 + V(g + 4)
    IN  [k \in 1..nbytes |-> Byte(k)]


-----------------------------------------------------------------------------
(* UAssetWriter: buildNameMap, buildImportMap, getOrAddName.               *)

\* "Package"
S_Package == <<80, 97, 99, 107, 97, 103, 101>>
\* "Object"
S_Object == <<79, 98, 106, 101, 99, 116>>
\* "Engine"
S_Engine == <<69, 110, 103, 105, 110, 101>>
\* "CoreUObject"
S_CoreUObject == <<67, 111, 114, 101, 85, 79, 98, 106, 101, 99, 116>>
\* "SceneComponent"
S_SceneComponent == <<83, 99, 101, 110, 101, 67, 111, 109, 112, 111, 110, 101, 110, 116>>
\* "SimpleConstructionScript"
S_SimpleConstructionScript == <<83, 105, 109, 112, 108, 101, 67, 111, 110, 115, 116, 114, 117, 99, 116, 105, 111, 110, 83, 99, 114, 105, 112, 116>>
\* "__bForcedExport"
K___bForcedExport == <<95, 95, 98, 70, 111, 114, 99, 101, 100, 69, 120, 112, 111, 114, 116>>
\* "true"
S_true == <<116, 114, 117, 101>>
\* "false"
S_false == <<102, 97, 108, 115, 101>>

\* names.add(name) on a Set kept in insertion order
SetAdd(names, name) == IF InList(names, name) THEN names ELSE Append(names, name)

\* typeof v === 'object' (null included)
IsObjectType(v) == v.t \in {"obj", "arr", "null", "map", "buf"}

\* the [key, value] pairs a for-in loop over v visits: an array's keys are
\* its indexes
ForIn(v) ==
    IF v.t = "obj" THEN Entries(v.kv)
    ELSE IF v.t = "arr" THEN [i \in 1..Len(v.items) |-> KV(Dec(i - 1), v.items[i])]
    ELSE <<>>

RECURSIVE extractNamesFromObject(_, _)
RECURSIVE ExtractLoop(_, _, _)

\* the loop of extractNamesFromObject over the pairs from position i
ExtractLoop(pairs, i, names) ==
    IF i > Len(pairs) THEN names
    ELSE LET n1 == SetAdd(names, pairs[i].k)
             value == pairs[i].v
             n2 == IF value.t = "str" THEN SetAdd(n1, value.v)
                   ELSE IF IsObjectType(value)
                   THEN extractNamesFromObject(value, n1)
                   ELSE n1
         IN  ExtractLoop(pairs, i + 1, n2)

extractNamesFromObject(obj, names) ==
    IF ~JsTruthy(obj) \/ ~IsObjectType(obj) THEN names
    ELSE ExtractLoop(ForIn(obj), 1, names)

commonNames ==
    <<S_None, S_Class, S_Package, S_Object, S_Blueprint, S_Engine, S_CoreUObject>>

RECURSIVE NameMapLoop(_, _, _)
NameMapLoop(pairs, i, names) ==
    IF i > Len(pairs) THEN names
    ELSE NameMapLoop(pairs, i + 1,
             extractNamesFromObject(pairs[i].v, SetAdd(names, pairs[i].k)))

\* buildNameMap: the names in index order (index = position - 1)
buildNameMap(utxtData) ==
    NameMapLoop(ForIn(Get(utxtData, K_Exports)), 1, commonNames)

\* exportData.__Class.replace("Class ", "").replace("/Script/", "")
classPathOf(exportData) ==
    ReplaceFirst(ReplaceFirst(Get(exportData, K___Class).v, S_ClassSp, <<>>),
                 S_Script, <<>>)

\* `${ClassPackage}.${ClassName}.${ObjectName}` of the four common imports
commonImports ==
    <<S_CoreUObject \o <<46>> \o S_Class \o <<46>> \o S_Object,
      S_Engine \o <<46>> \o S_Class \o <<46>> \o S_Blueprint,
      S_Engine \o <<46>> \o S_Class \o <<46>> \o S_SceneComponent,
      S_Engine \o <<46>> \o S_Class \o <<46>> \o S_SimpleConstructionScript>>

\* reading exportData.__Class throws on null; calling .replace on a
\* truthy __Class that is not a string throws
ClassThrows(exportData) ==
    \/ exportData.t \in {"null", "undef"}
    \/ JsTruthy(Get(exportData, K___Class)) /\ Get(exportData, K___Class).t # "str"

RECURSIVE ImportMapLoop(_, _, _)
ImportMapLoop(pairs, i, imps) ==
    IF i > Len(pairs) THEN [st |-> "ok", imps |-> imps]
    ELSE IF ClassThrows(pairs[i].v) THEN [st |-> "TypeError", imps |-> imps]
    ELSE IF JsTruthy(Get(pairs[i].v, K___Class))
    THEN ImportMapLoop(pairs, i + 1, SetAdd(imps, classPathOf(pairs[i].v)))
    ELSE ImportMapLoop(pairs, i + 1, imps)

\* buildImportMap: the keys in insertion order; the key at position k has
\* index -k
buildImportMap(utxtData) ==
    ImportMapLoop(ForIn(Get(utxtData, K_Exports)), 1, commonImports)

\* getOrAddName: [names, index]
getOrAddName(names, name) ==
    IF InList(names, name)
    THEN [names |-> names,
          index |-> (CHOOSE i \in 1..Len(names) : names[i] = name) - 1]
    ELSE [names |-> Append(names, name), index |-> Len(names)]

-----------------------------------------------------------------------------
(* BufferWriter.  The buffer is its zero-filled content up to the highest  *)
(* byte written; growing the capacity copies it and changes nothing.       *)

\* bytes written at off
WriteAt(buf, off, bytes) ==
    [i \in 1..Max(Len(buf), off + Len(bytes)) |->
        IF i > off /\ i <= off + Len(bytes) THEN bytes[i - off]
        ELSE IF i <= Len(buf) THEN buf[i] ELSE 0]

\* getBuffer: buffer.slice(0, offset)
getBuffer(buf, off) == [i \in 1..off |-> IF i <= Len(buf) THEN buf[i] ELSE 0]

-----------------------------------------------------------------------------
(* UAssetWriter: the tables.                                               *)

RECURSIVE NameTableBytes(_, _)
\* writeNameTable from entry i on
NameTableBytes(names, i) ==
    IF i > Len(names) THEN <<>>
    ELSE FStringBytes(names[i]) \o U16LE(0) \o U16LE(0)
         \o NameTableBytes(names, i + 1)

\* parts[k] || dflt
PartOr(parts, k, dflt) ==
    IF k <= Len(parts) /\ parts[k] # <<>> THEN parts[k] ELSE dflt

RECURSIVE ImportTableLoop(_, _, _, _)
\* writeImportTable from entry i on: [names, bytes]
ImportTableLoop(imps, i, names, bytes) ==
    IF i > Len(imps) THEN [names |-> names, bytes |-> bytes]
    ELSE LET parts == Split(imps[i], 46)
             a == getOrAddName(names, PartOr(parts, 1, S_CoreUObject))
             b == getOrAddName(a.names, PartOr(parts, 2, S_Class))
             c == getOrAddName(b.names, PartOr(parts, 3, S_Object))
         IN  ImportTableLoop(imps, i + 1, c.names,
                 bytes \o FNameBytes(a.index, 0) \o FNameBytes(b.index, 0)
                 \o I32LE(0) \o FNameBytes(c.index, 0))

\* the class index writeExportTable gives an export
classIndexOf(exportData, imps) ==
    IF JsTruthy(Get(exportData, K___Class))
    THEN LET I == {i \in 1..Len(imps) : Includes(imps[i], classPathOf(exportData))
                                         \/ classPathOf(exportData) = <<>>}
         IN  IF I = {} THEN -1 ELSE -(CHOOSE i \in I : \A j \in I : i <= j)
    ELSE -1

\* cond ? 1 : 0
Flag(v) == IF JsTruthy(v) THEN 1 ELSE 0

\* writeUInt32(exportData.__ObjectFlags || 0): the four bytes, or <<>>
\* when the value is not a number in range and the write throws
ObjectFlagsBytes(exportData) ==
    LET v == Get(exportData, K___ObjectFlags)
    IN  IF ~JsTruthy(v) THEN I32LE(0)
        ELSE IF v.t = "int" /\ v.v >= 0 THEN I32LE(v.v)
        ELSE IF v.t = "u32" THEN U32LE(v.v)
        ELSE <<>>

\* one entry of the export table (104 bytes) with placeholder size and
\* offset
ExportEntryBytes(exportData, classIndex, nameIndex) ==
    I32LE(classIndex) \o I32LE(0) \o I32LE(0) \o I32LE(0)
    \o FNameBytes(nameIndex, 0) \o I32LE(0)
    \o I64LE(0) \o I64LE(0)
    \o I32LE(Flag(Get(exportData, K___bForcedExport)))
    \o I32LE(Flag(Get(exportData, K___bNotForClient)))
    \o I32LE(Flag(Get(exportData, K___bNotForServer)))
    \o U32LE(U32Zero) \o U32LE(U32Zero) \o U32LE(U32Zero) \o U32LE(U32Zero)
    \o ObjectFlagsBytes(exportData)
    \o I32LE(0)
    \o I32LE(Flag(Get(exportData, K___bIsAsset)))
    \o I32LE(-1) \o I32LE(0) \o I32LE(0) \o I32LE(0) \o I32LE(0)


-----------------------------------------------------------------------------
(* UAssetWriter.writeExportDataDirect and writePackageSummary.             *)

\* an element as Array.prototype.join prints it
JoinText(v) ==
    CASE v.t = "str" -> v.v
      [] v.t \in {"null", "undef"} -> <<>>
      [] v.t = "int" -> DecInt(v.v)
      [] v.t = "bool" -> IF v.v THEN S_true ELSE S_false

RECURSIVE JoinItems(_, _)
JoinItems(items, i) ==
    IF i > Len(items) THEN <<>> ELSE JoinText(items[i]) \o JoinItems(items, i + 1)

\* Array.isArray(base64Data) ? base64Data.join('') : base64Data, for a
\* list or a string
combinedBase64(base64Data) ==
    IF base64Data.t = "arr" THEN JoinItems(base64Data.items, 1) ELSE base64Data.v

\* the value is a list or a string: anything else makes Buffer.from (first
\* branch) or .replace (second branch) throw
IsBase64Data(v) == v.t \in {"arr", "str"}

\* combinedBase64.replace(/^Base64:/, '')
cleanBase64(s) ==
    IF StartsWith(s, S_Base64Colon) THEN SubSeq(s, Len(S_Base64Colon) + 1, Len(s))
    ELSE s

\* possibleBase64Locations
possibleBase64Locations(exportData) ==
    LET value == Get(exportData, K___Value)
    IN  <<Get(Get(value, K_RawData), K_Base64),
          Get(Get(Get(value, K_BaseClassAutoGen), K_Data), K_Base64),
          Get(Get(value, K_Data), K_Base64),
          Get(Get(exportData, K_RawData), K_Base64),
          Get(Get(Get(exportData, K_BaseClassAutoGen), K_Data), K_Base64),
          Get(Get(exportData, K_Data), K_Base64)>>

\* the candidate loop from location i on: [st, written, bytes]
RECURSIVE CandidateLoop(_, _)
CandidateLoop(locs, i) ==
    IF i > Len(locs) THEN [st |-> "ok", written |-> FALSE, bytes |-> <<>>]
    ELSE IF ~JsTruthy(locs[i]) THEN CandidateLoop(locs, i + 1)
    ELSE IF ~IsBase64Data(locs[i])
    THEN [st |-> "TypeError", written |-> FALSE, bytes |-> <<>>]
    ELSE IF Len(cleanBase64(combinedBase64(locs[i]))) > 0
    THEN [st |-> "ok", written |-> TRUE,
          bytes |-> FromBase64(cleanBase64(combinedBase64(locs[i])))]
    ELSE CandidateLoop(locs, i + 1)

\* writeExportDataDirect: [st, names, bytes], the bytes it appends
writeExportDataDirect(exportData, names) ==
    LET value == Get(exportData, K___Value)
        raw == Get(Get(value, K_RawData), K_Base64)
        first == JsTruthy(Get(value, K_Properties)) /\ JsTruthy(raw)
                 /\ IsBase64Data(raw)
        rest == CandidateLoop(possibleBase64Locations(exportData), 1)
        none == getOrAddName(names, S_None)
    IN  IF first
        THEN [st |-> "ok", names |-> names,
              bytes |-> FromBase64(combinedBase64(raw))]
        ELSE IF rest.st # "ok" THEN [st |-> rest.st, names |-> names, bytes |-> <<>>]
        ELSE IF rest.written
        THEN [st |-> "ok", names |-> names, bytes |-> rest.bytes]
        ELSE [st |-> "ok", names |-> none.names,
              bytes |-> FNameBytes(none.index, 0)]

\* the bytes writePackageSummary writes from offset 0
writePackageSummary(nameOffset, nameCount, importOffset, importCount, exportOffset, exportCount, totalHeaderSize) ==
    U32LE(PACKAGE_FILE_TAG)
    \o I32LE(-7) \o I32LE(864) \o I32LE(522) \o I32LE(0)
    \o I32LE(0)
    \o I32LE(totalHeaderSize) \o FStringBytes(S_None) \o U32LE(U32Zero)
    \o I32LE(nameCount) \o I32LE(nameOffset)
    \o FStringBytes(<<>>)
    \o I32LE(0) \o I32LE(0)
    \o I32LE(exportCount) \o I32LE(exportOffset)
    \o I32LE(importCount) \o I32LE(importOffset)
    \o I32LE(0)
    \o I32LE(0) \o I32LE(0)
    \o I32LE(0)
    \o I32LE(0)
    \o U32LE(U32Zero) \o U32LE(U32Zero) \o U32LE(U32Zero) \o U32LE(U32Zero)
    \o I32LE(1) \o I32LE(exportCount) \o I32LE(nameCount)
    \o U16LE(4) \o U16LE(27) \o U16LE(2) \o U32LE(U32Zero) \o FStringBytes(<<>>)
    \o U16LE(4) \o U16LE(27) \o U16LE(2) \o U32LE(U32Zero) \o FStringBytes(<<>>)
    \o U32LE(U32Zero) \o I32LE(0)
    \o U32LE(U32Zero)
    \o I32LE(0)
    \o I32LE(0)
    \o I64LE(totalHeaderSize)
    \o I32LE(0)
    \o I32LE(0)
    \o I32LE(0) \o I32LE(0)


-----------------------------------------------------------------------------
(* Package files to convert.  A file is laid out from a description: the   *)
(* header fields in the order readPackageFileSummary reads them, the name, *)
(* import and export tables, then each export's data.  Every multi-byte    *)
(* value is written in the file's byte order.                              *)

Reverse(s) == [i \in 1..Len(s) |-> s[Len(s) + 1 - i]]

Enc32(v, le) == IF le THEN I32LE(v) ELSE Reverse(I32LE(v))
Enc16(v, le) == IF le THEN U16LE(v) ELSE Reverse(U16LE(v))
Enc64(v, le) == IF le THEN I64LE(v) ELSE Reverse(I64LE(v))

\* a single-byte string with its terminator, as readFString expects it
EncFString(str, le) ==
    IF Len(str) = 0 THEN Enc32(0, le) ELSE Enc32(Len(str) + 1, le) \o str \o <<0>>

Zeros(n) == [i \in 1..n |-> 0]

\* Tokens of a property stream: <<"i32", v>>, <<"i64", v>>, <<"u8", v>>, <<"name", index,
\* instance>>, <<"str", s>>, <<"raw", bytes>> (bytes that have no byte
\* order: a float, a GUID), <<"sub", stream>> (the nested properties of a
\* generic struct).  A stream is a sequence of properties
\* [n, ni, ty, ti, size, extra, val] (size -1: the encoded length of val)
\* or sentinels [n |-> 0, sentinel |-> TRUE].
RECURSIVE EncTokens(_, _)
RECURSIVE EncStream(_, _)

EncToken(tok, le) ==
    CASE tok[1] = "i32" -> Enc32(tok[2], le)
      [] tok[1] = "i64" -> Enc64(tok[2], le)
      [] tok[1] = "u8" -> <<tok[2]>>
      [] tok[1] = "name" -> Enc32(tok[2], le) \o Enc32(tok[3], le)
      [] tok[1] = "str" -> EncFString(tok[2], le)
      [] tok[1] = "raw" -> tok[2]
      [] tok[1] = "sub" -> EncStream(tok[2], le)

EncTokens(toks, le) ==
    IF Len(toks) = 0 THEN <<>>
    ELSE EncToken(toks[1], le) \o EncTokens(Tail(toks), le)

IsSentinel(p) == "sentinel" \in DOMAIN p

EncProperty(p, le) ==
    IF IsSentinel(p) THEN Enc32(p.n, le) \o Enc32(0, le)
    ELSE Enc32(p.n, le) \o Enc32(p.ni, le) \o Enc32(p.ty, le) \o Enc32(p.ti, le)
         \o Enc32(IF p.size = -1 THEN Len(EncTokens(p.val, le)) ELSE p.size, le)
         \o Enc32(0, le)
         \o EncTokens(p.extra, le)
         \o EncTokens(p.val, le)

EncStream(stream, le) ==
    IF Len(stream) = 0 THEN <<>>
    ELSE EncProperty(stream[1], le) \o EncStream(Tail(stream), le)

\* the header of a file described by c, with the table offsets given
FileHeader(c, nameOffset, importOffset, exportOffset, total) ==
    LET le == c.le
        ver == c.ver
        E(v) == Enc32(v, le)
        Opt(cond, bytes) == IF cond THEN bytes ELSE <<>>
        engine == Enc16(4, le) \o Enc16(27, le) \o Enc16(2, le) \o E(0)
                  \o EncFString(<<>>, le)
    IN  (IF c.magic = "ok"
         THEN (IF le THEN U32LE(PACKAGE_FILE_TAG) ELSE PACKAGE_FILE_TAG)
         ELSE <<1, 2, 3, 4>>)
        \o E(c.legacy) \o E(864) \o E(ver)
        \o Opt(c.legacy <= -8, E(0))
        \o E(0)
        \o E(0)
        \o E(total) \o EncFString(S_None, le) \o E(0)
        \o E(Len(c.names) + c.nameCountExtra) \o E(nameOffset)
        \o Opt(ver >= VER_UE4_ADDED_PACKAGE_SUMMARY_LOCALIZATION_ID,
               EncFString(<<>>, le))
        \o Opt(ver >= VER_UE4_SERIALIZE_TEXT_IN_PACKAGES, E(0) \o E(0))
        \o E(Len(c.exports)) \o E(exportOffset)
        \o E(Len(c.imports)) \o E(importOffset)
        \o E(0)
        \o Opt(ver >= VER_UE4_ADD_STRING_ASSET_REFERENCES_MAP, E(0) \o E(0))
        \o Opt(ver >= VER_UE4_ADDED_SEARCHABLE_NAMES, E(0))
        \o E(0)
        \o Zeros(16)
        \o Opt(ver >= VER_UE4_ADDED_PACKAGE_OWNER, Zeros(16))
        \o Opt(ver >= VER_UE4_ADDED_PACKAGE_OWNER
               /\ ver < VER_UE4_NON_OUTER_PACKAGE_IMPORT, Zeros(16))
        \o E(1) \o E(Len(c.exports)) \o E(Len(c.names))
        \o (IF ver >= VER_UE4_ENGINE_VERSION_OBJECT THEN engine ELSE E(0))
        \o Opt(ver >= VER_UE4_PACKAGE_SUMMARY_HAS_COMPATIBLE_ENGINE_VERSION, engine)
        \o E(0) \o E(c.cc)
        \o E(0)
        \o E(c.ap)
        \o Opt(c.legacy > -7, E(0))
        \o E(0)
        \o Enc64(total, le)
        \o Opt(ver >= VER_UE4_WORLD_LEVEL_INFO, E(0))
        \o (IF ver >= VER_UE4_CHANGED_CHUNKID_TO_BE_AN_ARRAY_OF_CHUNKIDS
            THEN E(c.ci)
            ELSE Opt(ver >= VER_UE4_ADDED_CHUNKID_TO_ASSETDATA_AND_UPACKAGE, E(0)))
        \o Opt(ver >= VER_UE4_PRELOAD_DEPENDENCIES_IN_COOKED_EXPORTS, E(0) \o E(0))

RECURSIVE FileNames(_, _, _)
FileNames(names, ver, le) ==
    IF Len(names) = 0 THEN <<>>
    ELSE EncFString(names[1], le)
         \o (IF ver >= 504 THEN Zeros(4) ELSE <<>>)
         \o FileNames(Tail(names), ver, le)

\* an import is [cp, cn, outer, on], the names as <<index, instance>>
RECURSIVE FileImports(_, _, _)
FileImports(imps, ver, le) ==
    IF Len(imps) = 0 THEN <<>>
    ELSE LET i == imps[1]
         IN  Enc32(i.cp[1], le) \o Enc32(i.cp[2], le)
             \o Enc32(i.cn[1], le) \o Enc32(i.cn[2], le)
             \o Enc32(i.outer, le)
             \o Enc32(i.on[1], le) \o Enc32(i.on[2], le)
             \o (IF ver >= 508 THEN Zeros(8) ELSE <<>>)
             \o FileImports(Tail(imps), ver, le)


\* the data of an export described by e: its property stream, then e.tail
ExportPayload(e, le) == EncStream(e.stream, le) \o e.tail

\* the SerialSize and SerialOffset its table entry declares, for data
\* placed at off in a file of total bytes
DeclaredSize(e, le) ==
    CASE e.mode = "real" -> Len(ExportPayload(e, le))
      [] e.mode = "nosize" -> 0
      [] e.mode = "nooffset" -> Len(ExportPayload(e, le))
      [] e.mode = "eof" -> 4
      [] e.mode = "over" -> Len(ExportPayload(e, le)) + 50
      [] e.mode = "neg" -> -1

DeclaredOffset(e, off, total) ==
    CASE e.mode = "nooffset" -> 0
      [] e.mode = "eof" -> total
      [] OTHER -> off

ExportEntry(e, off, total, le) ==
    Enc32(e.cls, le) \o Enc32(0, le) \o Enc32(0, le) \o Enc32(e.outer, le)
    \o Enc32(e.name[1], le) \o Enc32(e.name[2], le)
    \o Enc32(0, le)
    \o Enc64(DeclaredSize(e, le), le) \o Enc64(DeclaredOffset(e, off, total), le)
    \o Enc32(0, le) \o Enc32(0, le) \o Enc32(0, le)
    \o Zeros(16)
    \o Enc32(e.flags, le)
    \o Enc32(0, le)
    \o Enc32(IF e.asset THEN 1 ELSE 0, le)
    \o Enc32(-1, le) \o Enc32(0, le) \o Enc32(0, le) \o Enc32(0, le)
    \o Enc32(0, le)

RECURSIVE FileExportTable(_, _, _, _)
\* the entries of exps, the first one's data placed at off
FileExportTable(exps, off, total, le) ==
    IF Len(exps) = 0 THEN <<>>
    ELSE ExportEntry(exps[1], off, total, le)
         \o FileExportTable(Tail(exps), off + Len(ExportPayload(exps[1], le)),
                            total, le)

RECURSIVE FilePayloads(_, _)
FilePayloads(exps, le) ==
    IF Len(exps) = 0 THEN <<>>
    ELSE ExportPayload(exps[1], le) \o FilePayloads(Tail(exps), le)

\* the file described by c, cut to c.keep bytes when c.keep >= 0
BuildFile(c) ==
    LET hlen == Len(FileHeader(c, 0, 0, 0, 0))
        names == FileNames(c.names, c.ver, c.le)
        imps == FileImports(c.imports, c.ver, c.le)
        data == FilePayloads(c.exports, c.le)
        nameOffset == hlen
        importOffset == nameOffset + Len(names)
        exportOffset == importOffset + Len(imps)
        dataOffset == exportOffset + 104 * Len(c.exports)
        total == dataOffset + Len(data)
        file == FileHeader(c, nameOffset, importOffset, exportOffset, total)
                \o names \o imps
                \o FileExportTable(c.exports, dataOffset, total, c.le)
                \o data
    IN  IF c.keep >= 0 THEN SubSeq(file, 1, Min(c.keep, Len(file))) ELSE file

\* where the data of export k (1-based) of c starts in BuildFile(c)
RECURSIVE PayloadLenBefore(_, _, _)
PayloadLenBefore(exps, k, le) ==
    IF k <= 1 THEN 0
    ELSE Len(ExportPayload(exps[k - 1], le)) + PayloadLenBefore(exps, k - 1, le)

DataOffsetOf(c, k) ==
    Len(FileHeader(c, 0, 0, 0, 0)) + Len(FileNames(c.names, c.ver, c.le))
    + Len(FileImports(c.imports, c.ver, c.le)) + 104 * Len(c.exports)
    + PayloadLenBefore(c.exports, k, c.le)


-----------------------------------------------------------------------------
(* convertUAssetToUTXT, parseToUTXT and UAssetParser.parse, step by step.  *)

NoSummary == [null |-> TRUE]
NoFile == [exists |-> FALSE]

\* nothing serialised yet
NoLog == [names |-> <<>>, imports |-> <<>>, exports |-> <<>>]

\* no conversion to UTXT is under way
ParserIdle ==
    /\ buffer = <<>>
    /\ offset = 0
    /\ useLittleEndian = TRUE
    /\ summary = NoSummary
    /\ nameMap = <<>>
    /\ imports = <<>>
    /\ exports = <<>>
    /\ ppc = "idle"
    /\ perr = ""
    /\ packageName = <<>>
    /\ expI = 0
    /\ utxt = VUndef
    /\ emitted = <<>>
    /\ parseRet = VUndef
    /\ convRet = "none"
    /\ outFile = NoFile

\* new UAssetParser(buffer) on the bytes of the file
ParserStart(bytes) ==
    /\ buffer = bytes
    /\ offset = 0
    /\ useLittleEndian = TRUE
    /\ summary = NoSummary
    /\ nameMap = <<>>
    /\ imports = <<>>
    /\ exports = <<>>
    /\ ppc = "summary"
    /\ perr = ""
    /\ packageName = <<>>
    /\ expI = 0
    /\ utxt = VUndef
    /\ emitted = <<>>
    /\ parseRet = VUndef
    /\ convRet = "none"
    /\ outFile = NoFile

\* parse(): this.summary = this.readPackageFileSummary(); a null summary
\* and an exception both end parse() with an exception
ReadSummary ==
    /\ ppc = "summary"
    /\ LET s == readPackageFileSummary(buffer)
       IN  /\ offset' = s.off
           /\ useLittleEndian' = s.le
           /\ IF s.st = "ok"
              THEN /\ summary' = [null |-> FALSE, f |-> s.f]
                   /\ ppc' = "names"
                   /\ perr' = perr
              ELSE /\ summary' = summary
                   /\ ppc' = "failed"
                   /\ perr' = s.st
    /\ UNCHANGED <<given, buffer, nameMap, imports, exports, packageName, expI,
                   utxt, emitted, parseRet, convRet, outFile, writerVars,
                   propVars, nameVars>>

\* parse(): this.readNameTable()
ReadNameTable ==
    /\ ppc = "names"
    /\ LET r == readNameTable(buffer, useLittleEndian, summary.f)
       IN  /\ offset' = r.off
           /\ nameMap' = r.names
           /\ ppc' = IF r.st = "ok" THEN "imports" ELSE "failed"
           /\ perr' = IF r.st = "ok" THEN perr ELSE r.st
    /\ UNCHANGED <<given, buffer, useLittleEndian, summary, imports, exports,
                   packageName, expI, utxt, emitted, parseRet, convRet, outFile,
                   writerVars, propVars, nameVars>>

\* parse(): this.readImportTable()
ReadImportTable ==
    /\ ppc = "imports"
    /\ LET r == readImportTable(buffer, useLittleEndian, summary.f, nameMap)
       IN  /\ offset' = r.off
           /\ imports' = r.imports
           /\ ppc' = IF r.st = "ok" THEN "exports" ELSE "failed"
           /\ perr' = IF r.st = "ok" THEN perr ELSE r.st
    /\ UNCHANGED <<given, buffer, useLittleEndian, summary, nameMap, exports,
                   packageName, expI, utxt, emitted, parseRet, convRet, outFile,
                   writerVars, propVars, nameVars>>

\* parse(): this.readExportTable()
ReadExportTable ==
    /\ ppc = "exports"
    /\ LET r == readExportTable(buffer, useLittleEndian, summary.f, nameMap)
       IN  /\ offset' = r.off
           /\ exports' = r.exports
           /\ ppc' = IF r.st = "ok" THEN "convert" ELSE "failed"
           /\ perr' = IF r.st = "ok" THEN perr ELSE r.st
    /\ UNCHANGED <<given, buffer, useLittleEndian, summary, nameMap, imports,
                   packageName, expI, utxt, emitted, parseRet, convRet, outFile,
                   writerVars, propVars, nameVars>>

\* convertToUTXT up to its export loop
ConvertBegin ==
    /\ ppc = "convert"
    /\ packageName' = detectPackageName(exports)
    /\ utxt' = utxt0
    /\ expI' = 0
    /\ ppc' = "process"
    /\ UNCHANGED <<given, buffer, offset, useLittleEndian, summary, nameMap,
                   imports, exports, perr, emitted, parseRet, convRet, outFile,
                   writerVars, propVars, nameVars>>

\* one iteration of convertToUTXT's export loop; a cycle of outers or a
\* property stream that loops leaves the call running for ever ("hung")
ProcessExport ==
    /\ ppc = "process"
    /\ expI < Len(exports)
    /\ \E key \in {exportKey(exports, expI, packageName)},
          data \in {processExport(buffer, exports[expI + 1], nameMap, imports,
                                  exports, packageName)} :
          IF key.st = "diverges" \/ data.st = "diverges"
          THEN /\ ppc' = "hung"
               /\ UNCHANGED <<utxt, emitted, expI>>
          ELSE /\ utxt' = VObj(ObjSet(utxt.kv, K_Exports,
                             VObj(ObjSet(Get(utxt, K_Exports).kv, key.v, data.v))))
               /\ emitted' = Append(emitted,
                                    [exp |-> exports[expI + 1], key |-> key.v,
                                     data |-> data.v])
               /\ expI' = expI + 1
               /\ ppc' = ppc
    /\ UNCHANGED <<given, buffer, offset, useLittleEndian, summary, nameMap,
                   imports, exports, perr, packageName, parseRet, convRet,
                   outFile, writerVars, propVars, nameVars>>

\* the end of convertToUTXT: the thumbnails, and parse() returns
ConvertEnd ==
    /\ ppc = "process"
    /\ expI = Len(exports)
    /\ utxt' = VObj(ObjSet(utxt.kv, K_Thumbnails,
                           thumbnailsOf(exports, packageName)))
    /\ parseRet' = utxt'
    /\ ppc' = "parsed"
    /\ UNCHANGED <<given, buffer, offset, useLittleEndian, summary, nameMap,
                   imports, exports, perr, packageName, expI, emitted, convRet,
                   outFile, writerVars, propVars, nameVars>>

\* convertUAssetToUTXT after parseToUTXT returned: JSON.stringify throws
\* on a BigInt value, and then nothing is written
WriteUTXT ==
    /\ ppc = "parsed"
    /\ IF HasBigInt(parseRet)
       THEN /\ convRet' = "false"
            /\ perr' = "TypeError"
            /\ outFile' = outFile
       ELSE /\ convRet' = "true"
            /\ perr' = perr
            /\ outFile' = [exists |-> TRUE, doc |-> Jsonify(parseRet)]
    /\ ppc' = "done"
    /\ UNCHANGED <<given, buffer, offset, useLittleEndian, summary, nameMap,
                   imports, exports, packageName, expI, utxt, emitted, parseRet,
                   writerVars, propVars, nameVars>>

\* convertUAssetToUTXT's catch: parse() threw
ConvertFailed ==
    /\ ppc = "failed"
    /\ convRet' = "false"
    /\ ppc' = "done"
    /\ UNCHANGED <<given, buffer, offset, useLittleEndian, summary, nameMap,
                   imports, exports, perr, packageName, expI, utxt, emitted,
                   parseRet, outFile, writerVars, propVars, nameVars>>


-----------------------------------------------------------------------------
(* The files converted: a name table, one import, and exports whose data   *)
(* and declared ranges vary.                                               *)

\* "Foo"
N_Foo == <<70, 111, 111>>
\* "Bar"
N_Bar == <<66, 97, 114>>
\* "MyStruct"
N_MyStruct == <<77, 121, 83, 116, 114, 117, 99, 116>>
\* "WBP_Main"
N_WBP_Main == <<87, 66, 80, 95, 77, 97, 105, 110>>
\* "Baz"
N_Baz == <<66, 97, 122>>
\* "hi"
N_hi == <<104, 105>>

\* the name table of the files; indexes are zero-based:
\*  0 None, 1 Foo, 2 Bar, 3 IntProperty, 4 StrProperty, 5 BoolProperty,
\*  6 StructProperty, 7 MyStruct, 8 ArrayProperty, 9 NameProperty,
\*  10 WBP_Main, 11 Class, 12 /Script/UMG, 13 CanvasPanel, 14 Int64Property,
\*  15 MapProperty, 16 Vector, 17 Baz
TestNames ==
    <<S_None, N_Foo, N_Bar, T_IntProperty, T_StrProperty, T_BoolProperty,
      T_StructProperty, N_MyStruct, T_ArrayProperty, T_NameProperty,
      N_WBP_Main, S_Class, S_ScriptUMG, S_CanvasPanel, T_Int64Property,
      T_MapProperty, ST_Vector, N_Baz>>

\* properties of a stream (n: the name index, ni: its instance)
NoGuid == <<"u8", 0>>
PInt(n, ni, v) ==
    [n |-> n, ni |-> ni, ty |-> 3, ti |-> 0, size |-> -1,
     extra |-> <<NoGuid>>, val |-> <<<<"i32", v>>>>]
PStr(n, ni, s) ==
    [n |-> n, ni |-> ni, ty |-> 4, ti |-> 0, size |-> -1,
     extra |-> <<NoGuid>>, val |-> <<<<"str", s>>>>]
PBool(n, ni, b) ==
    [n |-> n, ni |-> ni, ty |-> 5, ti |-> 0, size |-> 0,
     extra |-> <<<<"u8", b>>, NoGuid>>, val |-> <<>>]
PName(n, ni, index, instance) ==
    [n |-> n, ni |-> ni, ty |-> 9, ti |-> 0, size |-> -1,
     extra |-> <<NoGuid>>, val |-> <<<<"name", index, instance>>>>]
PInt64(n, ni, v) ==
    [n |-> n, ni |-> ni, ty |-> 14, ti |-> 0, size |-> -1,
     extra |-> <<NoGuid>>, val |-> <<<<"i64", v>>>>]
\* a struct MyStruct (not a fixed layout) holding the stream sub, with the
\* declared size given (-1: the length of sub)
PStruct(n, ni, sub, size) ==
    [n |-> n, ni |-> ni, ty |-> 6, ti |-> 0, size |-> size,
     extra |-> <<<<"name", 7, 0>>, <<"raw", Zeros(16)>>, NoGuid>>,
     val |-> <<<<"sub", sub>>>>]
\* a map with count entries, none of them written
PMap(n, ni, count) ==
    [n |-> n, ni |-> ni, ty |-> 15, ti |-> 0, size |-> -1,
     extra |-> <<<<"name", 3, 0>>, <<"name", 3, 0>>, NoGuid>>,
     val |-> <<<<"i32", count>>>>]
Sentinel == [n |-> 0, sentinel |-> TRUE]

\* the import of the files: CanvasPanel, class Class, package /Script/UMG
TestImports == <<[cp |-> <<12, 0>>, cn |-> <<11, 0>>, outer |-> 0, on |-> <<13, 0>>]>>

\* an export of class CanvasPanel named by the reference name
TestExport(name, mode, stream, tail) ==
    [cls |-> -1, outer |-> 0, name |-> name, asset |-> TRUE, flags |-> 1,
     mode |-> mode, stream |-> stream, tail |-> tail]

\* a file description
TestFile(le, magic, legacy, ver, exps) ==
    [le |-> le, magic |-> magic, legacy |-> legacy, ver |-> ver,
     names |-> TestNames, nameCountExtra |-> 0, imports |-> TestImports,
     exports |-> exps, cc |-> 0, ap |-> 0, ci |-> 0, keep |-> -1]


-----------------------------------------------------------------------------
(* The other components at rest.                                           *)

WriterIdle ==
    /\ wdoc = VUndef
    /\ wnames = <<>>
    /\ wimports = <<>>
    /\ wbuf = <<>>
    /\ woff = 0
    /\ wpc = "idle"
    /\ wi = 0
    /\ wpos = <<>>
    /\ wtab = <<0, 0, 0>>
    /\ wlog = NoLog
    /\ wout = NoFile
    /\ wret = "none"
    /\ reparse = [st |-> "none"]

PropIdle ==
    /\ pbuf = <<>>
    /\ pnames = <<>>
    /\ poff = 0
    /\ pstate = "Idle"
    /\ ptag = NullTag
    /\ pprops = <<>>
    /\ porder = <<>>
    /\ pstruct = [has |-> FALSE]
    /\ pend = ""
    /\ pval = [has |-> FALSE]

NoRes == [st |-> "none"]

\* no cross reference and no string under way
RefIdle ==
    /\ xref = [v |-> 0, imports |-> <<>>, exports |-> <<>>]
    /\ xres = [object |-> NoRes, class |-> NoRes, full |-> NoRes]
    /\ fstr = <<>>
    /\ fres = [written |-> NoRes, parser |-> NoRes, serializer |-> NoRes]

NameIdle ==
    /\ nref = [names |-> <<>>, index |-> 0, instance |-> 0, typeInstance |-> 0]
    /\ nres = [byIndex |-> NoRes, fname |-> NoRes, name |-> NoRes, tag |-> NoRes]
    /\ RefIdle

-----------------------------------------------------------------------------
(* Converting package files to UTXT.                                       *)

\* the longest data of an export that is not a property stream
MaxRawLen == 115

\* n bytes of data that is not a property stream
RawBytes(n) == [i \in 1..n |-> (i * 37 + 200) % 256]

SimpleStream == <<PInt(1, 0, 5), Sentinel>>

SimpleExports == <<TestExport(<<10, 0>>, "real", SimpleStream, <<>>)>>

\* headers: byte order, magic tag, legacy version, object version
HeaderFiles ==
    {TestFile(le, magic, legacy, ver, SimpleExports) :
        le \in BOOLEAN, magic \in {"ok", "bad"},
        legacy \in {-5, -6, -7, -8, -9}, ver \in {522, 507, 300}}

\* headers with a compressed-chunk, additional-packages or chunk-id count
CountFiles ==
    {[TestFile(le, "ok", -7, ver, SimpleExports)
        EXCEPT !.cc = k[1], !.ap = k[2], !.ci = k[3]] :
        le \in BOOLEAN, ver \in {522, 300},
        k \in {<<1, 0, 0>>, <<-1, 0, 0>>, <<0, 2, 0>>, <<0, -3, 0>>,
               <<0, 0, 1>>, <<0, 0, -1>>}}

\* what the data of an export may be: <<stream, tail>>
ExportDatas ==
    {<<<<PInt(1, 0, 5), PStr(2, 0, N_hi), Sentinel>>, <<>>>>,
     <<<<PInt64(1, 0, 7), Sentinel>>, <<>>>>,
     <<<<PStruct(1, 0, <<PBool(2, 0, 1), Sentinel>>, -1), Sentinel>>, <<>>>>,
     <<<<>>, RawBytes(1)>>,
     <<<<>>, RawBytes(57)>>,
     <<<<>>, RawBytes(58)>>,
     <<<<>>, RawBytes(MaxRawLen)>>}

ExportModes == {"real", "nosize", "nooffset", "eof", "over", "neg"}

\* two exports: a plain one, then one whose data and declared range vary
ExportFiles ==
    {TestFile(le, "ok", -7, 522,
              <<TestExport(<<1, 0>>, "real", SimpleStream, <<>>),
                [TestExport(<<10, 0>>, mode, d[1], d[2]) EXCEPT !.cls = cls]>>) :
        le \in BOOLEAN, cls \in {-1, 0}, mode \in ExportModes,
        d \in ExportDatas}

\* files cut short
CutFiles ==
    {[TestFile(le, "ok", -7, 522, SimpleExports) EXCEPT !.keep = k] :
        le \in BOOLEAN, k \in {0, 3, 6, 30, 200, 320}}

\* an export that is its own outer
CycleFiles ==
    {TestFile(TRUE, "ok", -7, 522,
              <<[TestExport(<<1, 0>>, "real", SimpleStream, <<>>)
                    EXCEPT !.outer = 1]>>)}

\* a stream of two properties and the sentinel, in the byte order the
\* property decoder reads
TwoProps == EncStream(<<PInt(1, 0, 5), PStr(2, 0, N_hi), Sentinel>>, TRUE)

\* the tag of a Vector struct named Foo
VectorTag ==
    Enc32(1, TRUE) \o Enc32(0, TRUE) \o Enc32(6, TRUE) \o Enc32(0, TRUE)
    \o Enc32(12, TRUE) \o Enc32(0, TRUE)
    \o Enc32(16, TRUE) \o Enc32(0, TRUE) \o Zeros(16) \o <<0>>

\* export data on which the property decoder fails: cut inside the first
\* tag, inside the first value, inside the second value; a struct whose
\* fields are missing; a tag whose name index, or whose type index, is
\* outside the name table
SoftDatas ==
    {SubSeq(TwoProps, 1, 10),
     SubSeq(TwoProps, 1, 27),
     SubSeq(TwoProps, 1, 58),
     VectorTag \o <<0, 0, 128, 63, 0>>,
     Enc32(99, TRUE) \o Enc32(0, TRUE) \o SubSeq(TwoProps, 9, 40),
     Enc32(1, TRUE) \o Enc32(0, TRUE) \o Enc32(-3, TRUE) \o SubSeq(TwoProps, 13, 40)}

\* three exports: one whose decode fails, a plain one, one whose decode
\* fails
SoftFiles ==
    {TestFile(le, "ok", -7, 522,
              <<TestExport(<<10, 0>>, "real", <<>>, d),
                TestExport(<<1, 0>>, "real", SimpleStream, <<>>),
                TestExport(<<2, 0>>, "real", <<>>, e)>>) :
        le \in BOOLEAN, d \in SoftDatas,
        e \in {SubSeq(TwoProps, 1, 27), Enc32(99, TRUE)}}

\* two exports named Foo with no outer and different data; an export
\* Foo, an export Bar inside it, and a second export Foo
TwinFiles ==
    {TestFile(TRUE, "ok", -7, 522,
              <<TestExport(<<1, 0>>, "real", SimpleStream, <<>>),
                TestExport(<<1, 0>>, "real", <<>>, <<1, 2, 3>>)>>),
     TestFile(TRUE, "ok", -7, 522,
              <<TestExport(<<1, 0>>, "real", SimpleStream, <<>>),
                [TestExport(<<2, 0>>, "real", SimpleStream, <<>>)
                    EXCEPT !.outer = 1],
                TestExport(<<1, 0>>, "real", <<>>, <<1, 2, 3>>)>>)}

ParseInputs == HeaderFiles \cup CountFiles \cup ExportFiles \cup CutFiles
               \cup CycleFiles \cup SoftFiles \cup TwinFiles

InitParse ==
    /\ given \in ParseInputs
    /\ ParserStart(BuildFile(given))
    /\ WriterIdle
    /\ PropIdle
    /\ NameIdle

NextParse ==
    \/ ReadSummary
    \/ ReadNameTable
    \/ ReadImportTable
    \/ ReadExportTable
    \/ ConvertBegin
    \/ ProcessExport
    \/ ConvertEnd
    \/ WriteUTXT
    \/ ConvertFailed

SpecParse == InitParse /\ [][NextParse]_vars

-----------------------------------------------------------------------------
(* The raw-byte fallback of an export (C2, C3).                            *)

\* the __Value of an emitted export payload
ValueOf(data) == Get(data, K___Value)

\* the payload has a RawData member
HasRawData(data) == ObjHas(ValueOf(data).kv, K_RawData)

\* the Base64 chunks of the payload's RawData, as strings
ChunksOf(data) ==
    LET items == Get(Get(ValueOf(data), K_RawData), K_Base64).items
    IN  [i \in 1..Len(items) |-> items[i].v]

\* chunks of at most 76 characters, all but the last of exactly 76
WellChunked(chunks) ==
    \A i \in 1..Len(chunks) :
        /\ Len(chunks[i]) >= 1
        /\ Len(chunks[i]) <= 76
        /\ i < Len(chunks) => Len(chunks[i]) = 76

\* the bytes of the file inside the range an export record declares
RangeBytes(exp) ==
    [i \in 1..Max(0, Min(Len(buffer) - exp.SerialOffset, exp.SerialSize)) |->
        buffer[exp.SerialOffset + i]]

\* the record declares a range of positive size that starts inside the
\* file, after offset 0
RangeInFile(exp) ==
    exp.SerialSize > 0 /\ exp.SerialOffset > 0 /\ exp.SerialOffset < Len(buffer)

\* the raw-byte fallback of an emitted export is lossless: well chunked,
\* decoding to the bytes of the range, and written back as exactly them
Lossless(e) ==
    /\ HasRawData(e.data)
    /\ WellChunked(ChunksOf(e.data))
    /\ FromBase64(Join(ChunksOf(e.data), <<>>)) = RangeBytes(e.exp)
    /\ \E w \in {writeExportDataDirect(Jsonify(e.data), nameMap)} :
          w.st = "ok" /\ w.bytes = RangeBytes(e.exp)

-----------------------------------------------------------------------------
(* Soft failures of the property decoder (C16).                            *)

\* the data of an export and what the property decoder makes of it
DataOf(exp) == readExportData(buffer, exp)
DecodeOf(exp) == deserializeProperties(DataOf(exp), nameMap, imports, exports)

\* the index is outside the name table
OutsideNames(index) == index < 0 \/ index >= Len(nameMap)

\* the first tag of the data names a name or a type outside the name table
BadTagFirst(bytes) ==
    /\ Len(bytes) >= 4
    /\ \/ OutsideNames(Int32At(bytes, 0, TRUE))
       \/ /\ Len(bytes) >= 12
          /\ nameMap[Int32At(bytes, 0, TRUE) + 1] \notin {S_None, <<>>}
          /\ OutsideNames(Int32At(bytes, 8, TRUE))

\* the decode of the export's data fails softly: a read throws and is
\* caught, or the first tag is bad
SoftFailed(exp) ==
    /\ HasSerialData(exp)
    /\ \/ DecodeOf(exp).st = "caught"
       \/ BadTagFirst(DataOf(exp))

\* every export emitted after a soft failure carries the RawData of its
\* bytes and is in the document under its key; when the export loop has
\* ended every export of the table has been emitted, in table order
SoftEmitted ==
    /\ \A k \in 1..Len(emitted) :
          SoftFailed(emitted[k].exp) =>
              /\ HasRawData(emitted[k].data)
              /\ FromBase64(Join(ChunksOf(emitted[k].data), <<>>))
                    = DataOf(emitted[k].exp)
              /\ ObjHas(Get(utxt, K_Exports).kv, emitted[k].key)
    /\ ppc = "parsed" =>
          /\ Len(emitted) = Len(exports)
          /\ \A k \in 1..Len(exports) : emitted[k].exp = exports[k]

\* the iteration of the export loop on an export whose decode fails
\* softly emits it and goes on to the next export
SoftStep ==
    (ppc = "process" /\ expI < Len(exports) /\ SoftFailed(exports[expI + 1])) =>
        /\ ppc' = "process"
        /\ expI' = expI + 1
        /\ Len(emitted') = Len(emitted) + 1
        /\ emitted'[Len(emitted')].exp = exports[expI + 1]

\* C16: a soft failure while decoding one export's property stream
\* (truncated data, an out-of-range read, a bad tag) never interrupts the
\* batch: that export is still emitted with its RawData, and every later
\* export of the table is still processed and emitted.
C16_SoftFailureContained == []SoftEmitted /\ [][SoftStep]_vars

\* three exports have been emitted: the first after a read that threw, the
\* second with its properties, the third after a failure again
C16_Witness ==
    /\ ppc = "parsed"
    /\ Len(emitted) = 3
    /\ DecodeOf(emitted[1].exp).st = "caught"
    /\ ObjHas(ValueOf(emitted[2].data).kv, K_Properties)
    /\ SoftFailed(emitted[3].exp)

\* the same with a first export whose first tag is bad
C16_WitnessBadTag ==
    /\ ppc = "parsed"
    /\ Len(emitted) = 3
    /\ BadTagFirst(DataOf(emitted[1].exp))
    /\ DecodeOf(emitted[1].exp).st = "done"
    /\ HasRawData(emitted[3].data)

-----------------------------------------------------------------------------
(* Unsupported files (C4, C5).                                             *)

\* the first four bytes of the file are neither the package tag nor its
\* byte-swapped value
BadMagic ==
    /\ Len(buffer) >= 4
    /\ UInt32At(buffer, 0, TRUE) \notin {PACKAGE_FILE_TAG, PACKAGE_FILE_TAG_SWAPPED}

\* the magic tag is recognised and the legacy version that follows it, in
\* the byte order the tag announces, is not -6, -7 or -8
BadLegacy ==
    /\ Len(buffer) >= 8
    /\ ~BadMagic
    /\ Int32At(buffer, 4, UInt32At(buffer, 0, TRUE) = PACKAGE_FILE_TAG)
          \notin {-6, -7, -8}

\* C4: a file with an unrecognised magic tag or an unsupported legacy
\* version is a hard failure: parse ends with an error right after the
\* summary, no document (not even a partial one) exists at any time,
\* convertUAssetToUTXT never returns true and returns false in the end,
\* and no output file is written.
C4_HardFailure ==
    (BadMagic \/ BadLegacy) =>
        /\ ppc \in {"summary", "failed", "done"}
        /\ ppc # "summary" => perr = "null"
        /\ utxt = VUndef
        /\ parseRet = VUndef
        /\ emitted = <<>>
        /\ outFile = NoFile
        /\ convRet # "true"
        /\ ppc = "done" => convRet = "false"

\* the conversion of a file with a byte-swapped tag and an unsupported
\* legacy version has returned
C4_Witness ==
    /\ BadLegacy
    /\ UInt32At(buffer, 0, TRUE) = PACKAGE_FILE_TAG_SWAPPED
    /\ ppc = "done"
    /\ convRet = "false"

\* C5: whenever the compressed-chunk count, the additional-packages count
\* or the chunk-id list count of the header is nonzero, the summary is
\* not parsed: a summary that was parsed read all three as zero.
C5_NonzeroCountFails ==
    ~summary.null =>
        /\ summary.f.CompressedChunksCount = 0
        /\ summary.f.AdditionalPackagesCount = 0
        /\ summary.f.ChunkIDsCount = 0

-----------------------------------------------------------------------------
(* Files in the foreign byte order (C6).                                   *)

\* the same file in the native byte order
TwinOf(c) == [c EXCEPT !.le = TRUE]

\* the Properties member of an export payload (undefined when it has none)
PropertiesOf(data) == Get(ValueOf(data), K_Properties)

\* the header and the tables of a byte-swapped file are read in the
\* foreign order: they give what the native-order twin gives
C6_HeaderAndTables ==
    (~useLittleEndian /\ ppc = "parsed") =>
        \E t \in {BuildFile(TwinOf(given))} :
        \E ts \in {readPackageFileSummary(t)} :
        \E tn \in {readNameTable(t, TRUE, ts.f)} :
            /\ [summary.f EXCEPT !.Tag = PACKAGE_FILE_TAG] = ts.f
            /\ nameMap = tn.names
            /\ imports = readImportTable(t, TRUE, ts.f, tn.names).imports
            /\ exports = readExportTable(t, TRUE, ts.f, tn.names).exports

\* the property stream of every export of a byte-swapped file is read in
\* the foreign order: it gives the Properties the twin's export gives
C6_PropertyStreams ==
    (~useLittleEndian /\ ppc = "parsed") =>
        \E t \in {BuildFile(TwinOf(given))} :
        \A k \in 1..Len(emitted) :
            HasSerialData(emitted[k].exp) =>
                PropertiesOf(emitted[k].data)
                    = PropertiesOf([t |-> "obj", kv |-> <<KV(K___Value,
                        parseExportData(readExportData(t, emitted[k].exp),
                                        nameMap, imports, exports).v)>>])

\* C6: after a byte-swapped magic tag every multi-byte read of the file
\* uses the opposite byte order: the header, the name, import and export
\* tables, and the values PropertySerializer reads from each export's
\* property stream.
C6_ForeignOrderEverywhere == C6_HeaderAndTables /\ C6_PropertyStreams

-----------------------------------------------------------------------------
(* PropertySerializer.deserializeProperties, step by step: the decoder is  *)
(* in ExpectTag before a tag, in ReadValue after a valid tag, and in       *)
(* Terminal when the loop has ended.  Hung: a nested decode never returns. *)

\* the number of properties one run of the decoder is followed for: a
\* struct whose declared size is negative can send the cursor back for ever
MaxProps == 6

\* the tag names a struct whose identity is not in the fixed-layout table
IsGenericStruct(tag) ==
    /\ tag.Type = T_StructProperty
    /\ tag.StructName # ST_Transform
    /\ ~IsFixedStruct(tag.StructName)

\* new PropertySerializer(bytes, names)
PropStart(bytes, names) ==
    /\ pbuf = bytes
    /\ pnames = names
    /\ poff = 0
    /\ pstate = "ExpectTag"
    /\ ptag = NullTag
    /\ pprops = <<>>
    /\ porder = <<>>
    /\ pstruct = [has |-> FALSE]
    /\ pend = ""
    /\ pval = [has |-> FALSE]

\* the loop test and readPropertyTag
ExpectTag ==
    /\ pstate = "ExpectTag"
    /\ IF ~(poff < Len(pbuf))
       THEN /\ pstate' = "Terminal"
            /\ pend' = "end"
            /\ UNCHANGED <<poff, ptag>>
       ELSE \E t \in {readPropertyTag(pbuf, poff, pnames)} :
            /\ poff' = t.off
            /\ IF t.st # "ok"
               THEN pstate' = "Terminal" /\ pend' = "caught" /\ ptag' = ptag
               ELSE IF t.v.null
               THEN pstate' = "Terminal" /\ pend' = "null" /\ ptag' = ptag
               ELSE pstate' = "ReadValue" /\ pend' = pend /\ ptag' = t.v
    /\ UNCHANGED <<given, pbuf, pnames, pprops, porder, pstruct, pval,
                   parserVars, writerVars, nameVars>>

\* the rest of the loop body after readPropertyValue returned or threw
LoopStep(r) ==
    IF r.st = "diverges"
    THEN /\ pstate' = "Hung"
         /\ UNCHANGED <<poff, pprops, porder, pend>>
    ELSE IF r.st # "ok"
    THEN /\ pstate' = "Terminal"
         /\ pend' = "caught"
         /\ poff' = r.off
         /\ UNCHANGED <<pprops, porder>>
    ELSE /\ pstate' = "ExpectTag"
         /\ pend' = pend
         /\ poff' = r.off
         /\ pprops' = ObjSet(pprops, ptag.Name,
                             convertToUTXTFormat(r.v, ptag, <<>>, <<>>))
         /\ porder' = Append(porder, [name |-> ptag.Name, at |-> ptag.at])

\* the test at the end of readPropertyValue, made when the value was read:
\* a warning is logged when the cursor did not advance by the declared size
SizeMismatchAll(tag, start, r) ==
    /\ r.st = "ok"
    /\ r.off - start # tag.Size

SizeMismatch(tag, start, r) ==
    /\ r.st = "ok"
    /\ r.off - start # tag.Size
    /\ tag.Type # T_BoolProperty

\* the number of times readArray's loop reaches the default case of its
\* switch for the array of tag at off: the `break` of that case leaves the
\* switch, not the loop, so the case runs once for each of the count
\* elements, logs a warning each time, and reads nothing
UnknownElementWarnings(buf, off, tag) ==
    IF tag.Type = T_ArrayProperty /\ tag.InnerType \notin ArrayInnerTypes
          /\ InBuf(buf, off, 4)
    THEN Max(Int32At(buf, off, TRUE), 0)
    ELSE 0

\* what the loop does with the result r of readPropertyValue for ptag;
\* pval keeps the cursor before the value, the tag, the result and whether
\* the size warning was logged
StoreValue(r) ==
    /\ pval' = [has |-> TRUE, start |-> poff, tag |-> ptag, r |-> r,
                warned |-> SizeMismatch(ptag, poff, r),
                unknown |-> UnknownElementWarnings(pbuf, poff, ptag)]
    /\ LoopStep(r)

\* readPropertyValue and convertToUTXTFormat for a tag that is not a
\* generic struct
ReadValue ==
    /\ pstate = "ReadValue"
    /\ Len(porder) < MaxProps
    /\ ~IsGenericStruct(ptag)
    /\ \E r \in {readPropertyValue(pbuf, poff, ptag, pnames, <<>>, <<>>)} :
          StoreValue(r)
    /\ UNCHANGED <<given, pbuf, pnames, ptag, pstruct, parserVars, writerVars,
                   nameVars>>

\* readPropertyValue for a generic struct.  pstruct keeps, for the claim
\* about frames: start (the cursor after the tag), size (the declared
\* size), after (the cursor afterwards), lo and hi (the part of the parent
\* buffer the nested decoder was given) and used (how far the nested
\* cursor went).
ReadGenericStruct ==
    /\ pstate = "ReadValue"
    /\ Len(porder) < MaxProps
    /\ IsGenericStruct(ptag)
    /\ \E r \in {readPropertyValue(pbuf, poff, ptag, pnames, <<>>, <<>>)} :
          /\ StoreValue(r)
          /\ pstruct' =
                [has |-> TRUE, start |-> poff, size |-> ptag.Size,
                 after |-> r.off, hung |-> r.st = "diverges",
                 lo |-> SliceIdx(poff, Len(pbuf)),
                 hi |-> Max(SliceIdx(poff, Len(pbuf)),
                            SliceIdx(AddClamp(poff, ptag.Size), Len(pbuf))),
                 used |-> deserializeProperties(NestedSlice(pbuf, poff, ptag),
                                                pnames, <<>>, <<>>).off]
    /\ UNCHANGED <<given, pbuf, pnames, ptag, parserVars, writerVars, nameVars>>

\* the streams decoded.  kind tells what the stream is: "plain" (whole,
\* of types the decoder reads in full, the sentinel written with instance
\* 0), "instance" (a property whose name reference is None with an
\* instance number), "map" (a map with entries), "cut" (bytes missing at
\* the end), "frame" (a generic struct whose declared size is not the
\* length of its content)
PropA == PInt(1, 0, 5)
PropB == PStr(2, 0, N_hi)
PropC == PBool(17, 0, 1)
PropD == PName(1, 2, 2, 0)
PropE == PStruct(2, 0, <<PBool(17, 0, 1), PInt(1, 0, 9), Sentinel>>, -1)
PropM == PMap(17, 0, 0)
PropNone2 == PInt(0, 3, 7)

PlainProps == {PropA, PropB, PropC, PropD, PropE, PropM}

PlainStreams ==
    {<<>>, <<PropA>>, <<PropA, PropB>>}
    \cup {<<p>> \o rest : p \in PlainProps,
                         rest \in {<<Sentinel>>, <<Sentinel, PropA>>}}
    \cup {<<p, q>> \o rest : p \in PlainProps, q \in {PropA, PropB, PropE},
                            rest \in {<<Sentinel>>, <<Sentinel, PropB, Sentinel>>}}
    \cup {<<Sentinel>>, <<Sentinel, PropA, Sentinel>>}

\* declared sizes of a generic struct whose content is 63 bytes long and
\* starts at offset 49 of a stream 149 bytes long
FrameSizes == {0, 5, 30, 60, 500, -8, -49, -60, -100, -500}

\* the property p with the declared size given
Sized(p, size) == [p EXCEPT !.size = size]

\* declared sizes that are not what the value readers consume
WrongSizes == {0, 1, 7, 100, -5}

\* properties whose value reader does not look at the declared size
SizeBlind == {PropA, PropB, PropC, PropD, PInt64(2, 0, 9)}

\* three bytes that belong to no property
Padding == [n |-> 3, ni |-> 0, ty |-> 3, ti |-> 0, size |-> 0, extra |-> <<>>,
            val |-> <<>>]

PropInput(stream, kind, keep) == [stream |-> stream, kind |-> kind, keep |-> keep]

\* a property of the type named Foo, which readPropertyValue does not
\* know, followed by five bytes
PUnknown(n, size) ==
    [n |-> n, ni |-> 0, ty |-> 1, ti |-> 0, size |-> size,
     extra |-> <<NoGuid>>, val |-> <<<<"raw", <<1, 2, 3, 4, 5>>>>>>]

\* declared sizes of a value of unknown type that starts at offset 25 of a
\* stream 67 bytes long
OpaqueSizes == {0, 3, 5, 42, 43, 100, 500, -5, -25, -30, -100}

\* "opaque": the first property is of a type the decoder does not know
OpaqueInputs ==
    {PropInput(<<PUnknown(2, size), PropA, Sentinel>>, "opaque", -1) :
        size \in OpaqueSizes}

\* the name table of the streams that hold arrays: TestNames, then
\*  18 ObjectProperty, 19 FloatProperty, 20 ByteProperty
ArrayNames == TestNames \o <<T_ObjectProperty, T_FloatProperty, T_ByteProperty>>

\* an array named n whose element type is the name inner, with the count
\* given and the tokens that follow it
PArr(n, inner, count, toks) ==
    [n |-> n, ni |-> 0, ty |-> 8, ti |-> 0, size |-> -1,
     extra |-> <<<<"name", inner, 0>>, NoGuid>>,
     val |-> <<<<"i32", count>>>> \o toks]

\* the longest array written
MaxArray == 3

\* "Bar_1"
N_Bar_1 == <<66, 97, 114, 95, 49>>

\* the first count elements of the list seq repeated over and over
Elems(seq, count) == [i \in 1..count |-> seq[((i - 1) % Len(seq)) + 1]]

\* for each primitive element type: its name index, three elements as
\* written and the values they stand for
ArrayCases ==
    <<[inner |-> 18,
       toks |-> <<<<"i32", -1>>, <<"i32", 2>>, <<"i32", 0>>>>,
       vals |-> <<VInt(-1), VInt(2), VInt(0)>>],
      [inner |-> 9,
       toks |-> <<<<"name", 1, 0>>, <<"name", 2, 2>>, <<"name", 99, 0>>>>,
       vals |-> <<VStr(N_Foo), VStr(N_Bar_1), VStr(S_None)>>],
      [inner |-> 4,
       toks |-> <<<<"str", N_hi>>, <<"str", <<>>>>, <<"str", N_Foo>>>>,
       vals |-> <<VStr(N_hi), VStr(<<>>), VStr(N_Foo)>>],
      [inner |-> 3,
       toks |-> <<<<"i32", 5>>, <<"i32", -7>>, <<"i32", 0>>>>,
       vals |-> <<VInt(5), VInt(-7), VInt(0)>>],
      [inner |-> 19,
       toks |-> <<<<"raw", <<0, 0, 128, 63>>>>, <<"raw", <<0, 0, 0, 192>>>>,
                  <<"raw", <<0, 0, 0, 0>>>>>>,
       vals |-> <<VFloat(<<0, 0, 128, 63>>), VFloat(<<0, 0, 0, 192>>),
                  VFloat(<<0, 0, 0, 0>>)>>],
      [inner |-> 5,
       toks |-> <<<<"u8", 1>>, <<"u8", 0>>, <<"u8", 2>>>>,
       vals |-> <<VBool(TRUE), VBool(FALSE), VBool(TRUE)>>],
      [inner |-> 20,
       toks |-> <<<<"u8", 0>>, <<"u8", 255>>, <<"u8", 7>>>>,
       vals |-> <<VInt(0), VInt(255), VInt(7)>>]>>

\* "array": an array of count elements of a primitive type, whole, then a
\* property and the sentinel
ArrayInputs ==
    {PropInput(<<PArr(2, ArrayCases[k].inner, count,
                      Elems(ArrayCases[k].toks, count)),
                 PropA, Sentinel>>, "array", -1) :
        k \in 1..Len(ArrayCases), count \in 0..MaxArray}

\* two vectors as written: three floats each
VectorOne == <<0, 0, 128, 63, 0, 0, 0, 64, 0, 0, 64, 64>>
VectorTwo == <<0, 0, 128, 64, 0, 0, 160, 64, 0, 0, 192, 64>>

\* the tag that precedes the elements of a struct array in a file written
\* by the engine: it names the element struct (16: Vector)
InnerStructTag ==
    <<<<"name", 2, 0>>, <<"name", 6, 0>>, <<"i32", 24>>, <<"i32", 0>>,
      <<"name", 16, 0>>, <<"raw", Zeros(16)>>, <<"u8", 0>>>>

\* "structarray": an array of two Vector structs, the elements right after
\* the count or after the tag that names their struct
StructArrayInputs ==
    {PropInput(<<PArr(2, 6, 2, lead \o <<<<"raw", VectorOne>>,
                                         <<"raw", VectorTwo>>>>),
                 PropA, Sentinel>>, "structarray", -1) :
        lead \in {<<>>, InnerStructTag}}

\* "size": the declared size of the first property is wrong and its value
\* is whole
SizeInputs ==
    {PropInput(<<Sized(p, size), PropA, Sentinel>>, "size", -1) :
        p \in SizeBlind, size \in WrongSizes}

\* "hang": a generic struct whose content starts with a property of
\* unknown type that declares minus the length of its tag
HangInputs ==
    {PropInput(<<PStruct(2, 0, <<PUnknown(1, -25), Sentinel>>, -1),
                 PropA, Sentinel>>, "hang", -1)}

\* element types readArray has no case for: 14 Int64Property,
\* 15 MapProperty, 1 Foo
UnknownInner == {14, 15, 1}

\* "unkarray": an array of an element type readArray does not know, with
\* its count and no element or two 8-byte elements after it
UnknownArrayInputs ==
    {PropInput(<<PArr(2, inner, count, toks), PropA, Sentinel>>,
               "unkarray", -1) :
        inner \in UnknownInner, count \in {0, 1, 2, 1000000, -1},
        toks \in {<<>>, <<<<"i64", 9>>, <<"i64", 7>>>>}}

PropInputs ==
    {PropInput(st, "plain", -1) : st \in PlainStreams}
    \cup {PropInput(<<p, PropNone2, PropA, Sentinel>>, "instance", -1) :
             p \in {PropA, PropE}}
    \cup {PropInput(<<PropNone2, PropA, Sentinel, PropB>>, "instance", -1)}
    \cup {PropInput(<<PMap(17, 0, 2), PropA, Sentinel>>, "map", -1)}
    \cup {PropInput(<<PropA, PropB, Sentinel>>, "cut", k) :
             k \in {2, 6, 10, 20, 27, 40, 60}}
    \cup {PropInput(<<PStruct(2, 0, <<PBool(17, 0, 1), PInt(1, 0, 9), Sentinel>>,
                              size),
                      PropA, Sentinel>>, "frame", -1) : size \in FrameSizes}
    \cup SizeInputs
    \cup OpaqueInputs
    \cup HangInputs
    \cup UnknownArrayInputs
    \cup ArrayInputs
    \cup StructArrayInputs

\* the bytes of an input
PropBytes(c) ==
    LET all == EncStream(c.stream, TRUE)
    IN  IF c.keep >= 0 THEN SubSeq(all, 1, Min(c.keep, Len(all))) ELSE all

\* the name table of an input
PropNames(c) ==
    IF c.kind \in {"array", "structarray", "unkarray"} THEN ArrayNames
    ELSE TestNames

InitProps ==
    /\ given \in PropInputs
    /\ PropStart(PropBytes(given), PropNames(given))
    /\ ParserIdle
    /\ WriterIdle
    /\ NameIdle

NextProps ==
    \/ ExpectTag
    \/ ReadValue
    \/ ReadGenericStruct

SpecProps == InitProps /\ [][NextProps]_vars

\* the offsets of the tags decoded, in decoding order
DecodedAt == [i \in 1..Len(porder) |-> porder[i].at]

\* the elements of a stream before its first sentinel
BeforeSentinel(stream) ==
    LET S == {i \in 1..Len(stream) : IsSentinel(stream[i])}
    IN  IF S = {} THEN stream
        ELSE SubSeq(stream, 1, (CHOOSE i \in S : \A j \in S : i <= j) - 1)

\* the offset of each property of a stream
OffsetsOf(stream) ==
    [i \in 1..Len(stream) |-> Len(EncStream(SubSeq(stream, 1, i - 1), TRUE))]

\* the stream is whole and every property before its sentinel is of a
\* type the decoder reads in full
Decodable(c) == c.kind \in {"plain", "instance"}

\* C7: the decoder goes ExpectTag -> ReadValue -> ExpectTag and stops at
\* the first tag whose name resolves to the sentinel "None": when it has
\* stopped, the properties decoded are exactly those before the sentinel,
\* in stream order, and none comes from bytes after the sentinel.
C7_StopsAtSentinel ==
    /\ pstate = "ReadValue" => ~ptag.null
    /\ (pstate = "Terminal" /\ Decodable(given)) =>
          DecodedAt = OffsetsOf(BeforeSentinel(given.stream))

\* the same for the streams whose sentinel and property names carry no
\* instance number
C7_PlainStreams ==
    (pstate = "Terminal" /\ given.kind = "plain") =>
        DecodedAt = OffsetsOf(BeforeSentinel(given.stream))

\* C8: after a generic struct the parent cursor is (the position after the
\* tag) + (the declared size), and the bytes of the parent stream the
\* nested decoder read lie inside the declared range.
C8_StructFrame ==
    (pstruct.has /\ ~pstruct.hung) =>
        /\ pstruct.after = pstruct.start + pstruct.size
        /\ pstruct.used > 0 =>
              /\ pstruct.lo >= pstruct.start
              /\ Min(pstruct.lo + pstruct.used, pstruct.hi)
                    <= pstruct.start + pstruct.size

\* the cursor half of C8 alone
C8_CursorExact ==
    (pstruct.has /\ ~pstruct.hung) =>
        pstruct.after = pstruct.start + pstruct.size

\* the range half of C8 for declared sizes that are not negative
C8_RangeWhenSizeNatural ==
    (pstruct.has /\ ~pstruct.hung /\ pstruct.size >= 0 /\ pstruct.used > 0) =>
        /\ pstruct.lo >= pstruct.start
        /\ Min(pstruct.lo + pstruct.used, pstruct.hi)
              <= pstruct.start + pstruct.size

\* readPropertyValue has returned a value whose reader did not advance the
\* cursor by the declared size of its tag
Mismatched(v) ==
    /\ v.has
    /\ v.r.st = "ok"
    /\ v.r.off - v.start # v.tag.Size

\* a step of the loop that reads a value of the wrong size records it,
\* raises nothing, leaves the cursor where the reader left it, and logs
\* the warning unless the property is a boolean
MismatchStep ==
    (pstate = "ReadValue" /\ pstate' # "ReadValue" /\ Mismatched(pval')) =>
        /\ pstate' = "ExpectTag"
        /\ pend' = pend
        /\ poff' = pval'.r.off
        /\ porder' = Append(porder, [name |-> ptag.Name, at |-> ptag.at])
        /\ ObjHas(pprops', ptag.Name)
        /\ pval'.warned <=> ptag.Type # T_BoolProperty

\* a whole stream whose first property declares a wrong size is decoded to
\* its sentinel, each tag read where the value before it ended
MismatchStreams ==
    (pstate = "Terminal" /\ given.kind = "size") =>
        /\ pend = "null"
        /\ DecodedAt = OffsetsOf(BeforeSentinel(given.stream))

\* C12: a declared size that is not the number of bytes the value reader
\* consumed is never fatal: the property is recorded, no error is raised,
\* the next tag is read from the cursor the reader reached (not from start
\* + declared size), and for a boolean the comparison is not made at all.
C12_MismatchNotFatal == []MismatchStreams /\ [][MismatchStep]_vars

\* a value of the wrong size has been recorded and the warning logged
C12_Witness ==
    /\ given.kind = "size"
    /\ pstate = "ExpectTag"
    /\ Mismatched(pval)
    /\ pval.warned
    /\ poff # pval.start + pval.tag.Size

\* a boolean of the wrong size has been recorded without the warning
C12_WitnessBool ==
    /\ pstate = "ExpectTag"
    /\ Mismatched(pval)
    /\ pval.tag.Type = T_BoolProperty
    /\ ~pval.warned

\* the types readPropertyValue has a case for
KnownTypes ==
    {T_BoolProperty, T_ByteProperty, T_IntProperty, T_Int32Property,
     T_Int64Property, T_Int16Property, T_Int8Property, T_UInt32Property,
     T_UInt64Property, T_UInt16Property, T_FloatProperty, T_DoubleProperty,
     T_NameProperty, T_StrProperty, T_TextProperty, T_ObjectProperty,
     T_InterfaceProperty, T_SoftObjectProperty, T_StructProperty,
     T_ArrayProperty, T_MapProperty, T_DelegateProperty,
     T_MulticastDelegateProperty}

\* the last value read was of a type readPropertyValue has no case for
OpaqueRead == pval.has /\ pval.tag.Type \notin KnownTypes

\* the bytes of the stream from start up to start + size
Span(buf, start, size) ==
    [i \in 1..size |-> IF start + i <= Len(buf) THEN buf[start + i] ELSE -1]

\* the cursor moved by the declared size
OpaqueCursorExact ==
    OpaqueRead => pval.r.st = "ok" /\ pval.r.off = pval.start + pval.tag.Size

\* the span is the bytes of the declared range
OpaqueSpanExact ==
    OpaqueRead =>
        /\ pval.r.st = "ok"
        /\ pval.r.v.t = "buf"
        /\ Len(pval.r.v.bytes) = pval.tag.Size
        /\ pval.r.v.bytes = Span(pbuf, pval.start, pval.tag.Size)

\* C13: a property of a type the decoder does not recognise is decoded as
\* an opaque byte span of exactly the declared size of its tag, and the
\* cursor advances by exactly that size, whatever the declared size is.
C13_OpaqueSpan == OpaqueSpanExact /\ OpaqueCursorExact

\* the cursor half of C13 alone
C13_CursorExact == OpaqueCursorExact

\* the span half of C13 when the declared range lies inside the stream
C13_SpanWhenInside ==
    (OpaqueRead /\ pval.tag.Size >= 0
                /\ pval.start + pval.tag.Size <= Len(pbuf)) =>
        /\ pval.r.v.t = "buf"
        /\ pval.r.v.bytes = Span(pbuf, pval.start, pval.tag.Size)

\* the count prefix of the value last read
CountRead == Int32At(pbuf, pval.start, TRUE)

\* the element types of readArray that are not structs
PrimitiveInner ==
    {T_ObjectProperty, T_NameProperty, T_StrProperty, T_IntProperty,
     T_FloatProperty, T_BoolProperty, T_ByteProperty}

\* the last value read was an array of a primitive element type
ArrayRead ==
    /\ pval.has
    /\ pval.tag.Type = T_ArrayProperty
    /\ pval.tag.InnerType \in PrimitiveInner

\* the case of ArrayCases an input was built from
CaseOf(c) ==
    ArrayCases[CHOOSE k \in 1..Len(ArrayCases) :
                   ArrayCases[k].inner = c.stream[1].extra[1][2]]

\* the count an input was written with
CountOf(c) == c.stream[1].val[1][2]

\* an array that was read has as many elements as its count prefix says
ArrayCount ==
    (ArrayRead /\ pval.r.st = "ok" /\ CountRead >= 0) =>
        /\ pval.r.v.t = "arr"
        /\ Len(pval.r.v.items) = CountRead

\* the array of a whole stream is read, and its elements are the values
\* written, in the order written
ArrayElements ==
    (ArrayRead /\ given.kind = "array" /\ pval.tag.at = 0) =>
        /\ pval.r.st = "ok"
        /\ CountRead = CountOf(given)
        /\ pval.r.v = VArr(Elems(CaseOf(given).vals, CountOf(given)))
        /\ pval.r.off = pval.start
                        + Len(EncTokens(given.stream[1].val, TRUE))

\* C14: an array whose count prefix is N >= 0 and whose element type is
\* one of the supported primitive kinds (object reference, name reference,
\* string, int32, float, bool, byte) yields exactly N elements, in stream
\* order.
C14_ArrayElements == ArrayCount /\ ArrayElements

\* an array of MaxArray elements has been read
C14_Witness ==
    /\ ArrayRead
    /\ given.kind = "array"
    /\ pval.r.st = "ok"
    /\ Len(pval.r.v.items) = MaxArray
    /\ pval.r.v.items[1] # pval.r.v.items[2]

\* the struct { X, Y, Z } of the twelve bytes of a vector
VectorValue(bytes) ==
    VObj(<<KV(K_X, VFloat(SubSeq(bytes, 1, 4))),
           KV(K_Y, VFloat(SubSeq(bytes, 5, 8))),
           KV(K_Z, VFloat(SubSeq(bytes, 9, 12)))>>)

\* the struct array of an input has been read
StructArrayRead ==
    /\ pval.has
    /\ given.kind = "structarray"
    /\ pval.tag.at = 0

\* C15: every element of a struct array is decoded with the struct
\* identity carried by the array's tag; when that identity names a
\* fixed-layout struct (Vector here) each element is decoded with that
\* fixed layout.
C15_StructArrayIdentity ==
    StructArrayRead =>
        /\ pval.tag.StructName = ST_Vector
        /\ pval.r.st = "ok"
        /\ pval.r.v = VArr(<<VectorValue(VectorOne), VectorValue(VectorTwo)>>)

\* what readArray does with a struct array: its tag carries no struct
\* identity, every element is an empty generic struct and the cursor stays
\* after the count
C15_ElementsGeneric ==
    (pval.has /\ pval.tag.Type = T_ArrayProperty
              /\ pval.tag.InnerType = T_StructProperty) =>
        /\ pval.tag.StructName = Undefined
        /\ pval.r.st = "ok" =>
              /\ pval.r.off = pval.start + 4
              /\ \A i \in 1..Len(pval.r.v.items) :
                    pval.r.v.items[i] = VObj(<<KV(K_Properties, VObj(<<>>))>>)

-----------------------------------------------------------------------------
(* Name references: one (index, instance) pair resolved by each reader --  *)
(* getNameByIndex and readFName of the parser (import and export records), *)
(* readName of the serializer (property values) and readPropertyTag (the   *)
(* name and the type of a tag).                                            *)

\* the instance numbers tried: 11 and 101 print with two and three digits
Instances == {-1, 0, 1, 2, 11, 101}

\* a name table whose entry 0 is not the sentinel
ShortNames == <<N_Foo, T_IntProperty, N_Bar>>

\* the index of IntProperty in a table
IntPropertyIn(names) == CHOOSE i \in 0..(Len(names) - 1) : names[i + 1] = T_IntProperty

NameRefs ==
    {[names |-> names, index |-> index, instance |-> instance,
      typeInstance |-> typeInstance] :
        names \in {TestNames, ShortNames},
        index \in {-2147483647, -1, 0, 1, 2, 3, 17, 18, 2147483647},
        instance \in Instances,
        typeInstance \in {0, 2}}

\* the 8 bytes of the reference
RefBytes(r) == Enc32(r.index, TRUE) \o Enc32(r.instance, TRUE)

\* a tag named by the reference: its type is IntProperty with the type
\* instance, its value 5
TagBytes(r) ==
    RefBytes(r) \o Enc32(IntPropertyIn(r.names), TRUE)
    \o Enc32(r.typeInstance, TRUE) \o Enc32(4, TRUE) \o Enc32(0, TRUE)
    \o <<0>> \o Enc32(5, TRUE)

\* UAssetParser.getNameByIndex(index)
GetNameByIndex ==
    /\ nres.byIndex.st = "none"
    /\ nres' = [nres EXCEPT !.byIndex =
                   [st |-> "ok", v |-> getNameByIndex(nref.names, nref.index)]]
    /\ UNCHANGED <<given, nref, xref, xres, fstr, fres, parserVars, writerVars,
                   propVars>>

\* UAssetParser.readFName() on the bytes of the reference
ReadFName ==
    /\ nres.fname.st = "none"
    /\ nres' = [nres EXCEPT !.fname =
                   [st |-> "ok", v |-> FNameAt(RefBytes(nref), 0, TRUE, nref.names)]]
    /\ UNCHANGED <<given, nref, xref, xres, fstr, fres, parserVars, writerVars,
                   propVars>>

\* PropertySerializer.readName() on the bytes of the reference
ReadName ==
    /\ nres.name.st = "none"
    /\ \E r \in {PreadName(RefBytes(nref), 0, nref.names)} :
          nres' = [nres EXCEPT !.name =
                      IF r.st = "ok" THEN [st |-> "ok", v |-> r.v]
                      ELSE [st |-> r.st]]
    /\ UNCHANGED <<given, nref, xref, xres, fstr, fres, parserVars, writerVars,
                   propVars>>

\* PropertySerializer.readPropertyTag() on a tag named by the reference
ReadTagRef ==
    /\ nres.tag.st = "none"
    /\ \E t \in {readPropertyTag(TagBytes(nref), 0, nref.names)} :
          nres' = [nres EXCEPT !.tag =
                      IF t.st # "ok" THEN [st |-> t.st]
                      ELSE IF t.v.null THEN [st |-> "null"]
                      ELSE [st |-> "ok", Name |-> t.v.Name, Type |-> t.v.Type]]
    /\ UNCHANGED <<given, nref, xref, xres, fstr, fres, parserVars, writerVars,
                   propVars>>

InitNames ==
    /\ nref \in NameRefs
    /\ nres = [byIndex |-> NoRes, fname |-> NoRes, name |-> NoRes, tag |-> NoRes]
    /\ RefIdle
    /\ given = VUndef
    /\ ParserIdle
    /\ WriterIdle
    /\ PropIdle

NextNames ==
    \/ GetNameByIndex
    \/ ReadFName
    \/ ReadName
    \/ ReadTagRef

SpecNames == InitNames /\ [][NextNames]_vars

\* the index of the reference is inside the name table
InTable == nref.index >= 0 /\ nref.index < Len(nref.names)

\* the table entry the index selects
Entry == nref.names[nref.index + 1]

\* the name an (entry, instance) pair denotes
Denoted(entry, instance) ==
    IF instance = 0 THEN entry ELSE entry \o <<95>> \o Dec(instance - 1)

\* C9: resolving a name index never throws: an index inside the table
\* gives the table entry, any other index gives the sentinel "None", in
\* getNameByIndex and in readName.
C9_IndexResolution ==
    /\ nres.byIndex.st # "none" =>
          /\ nres.byIndex.st = "ok"
          /\ nres.byIndex.v = IF InTable THEN Entry ELSE S_None
    /\ nres.name.st # "none" =>
          /\ nres.name.st = "ok"
          /\ IF ~InTable THEN nres.name.v = S_None
             ELSE IF nref.instance = 0 THEN nres.name.v = Entry
             ELSE StartsWith(nres.name.v, Entry)

\* both resolvers have answered for the first index past the table
C9_Witness ==
    /\ nref.index = Len(nref.names)
    /\ nres.byIndex.st = "ok"
    /\ nres.name.st = "ok"

\* both resolvers have answered for an index inside the table whose entry
\* is not the sentinel
C9_WitnessInTable ==
    /\ InTable
    /\ Entry # S_None
    /\ nres.byIndex.st = "ok"
    /\ nres.name.st = "ok"

\* C10: wherever a name reference is decoded -- import and export records
\* (readFName), property values (readName), the name and the type of a tag
\* (readPropertyTag) -- instance 0 denotes the bare name and instance k > 0
\* the name followed by "_" and k - 1.
C10_InstanceRule ==
    (InTable /\ nref.instance >= 0) =>
        /\ nres.fname.st = "ok" => nres.fname.v = Denoted(Entry, nref.instance)
        /\ nres.name.st = "ok" => nres.name.v = Denoted(Entry, nref.instance)
        /\ nres.tag.st = "ok" =>
              /\ nres.tag.Name = Denoted(Entry, nref.instance)
              /\ nres.tag.Type = Denoted(T_IntProperty, nref.typeInstance)

\* the rule in the readers of records and of property values
C10_RecordsAndValues ==
    (InTable /\ nref.instance >= 0) =>
        /\ nres.fname.st = "ok" => nres.fname.v = Denoted(Entry, nref.instance)
        /\ nres.name.st = "ok" => nres.name.v = Denoted(Entry, nref.instance)

\* what readPropertyTag does instead: the two instance numbers are read
\* and dropped
C10_TagDropsInstance ==
    nres.tag.st = "ok" =>
        /\ nres.tag.Name = Entry
        /\ nres.tag.Type = T_IntProperty

-----------------------------------------------------------------------------
(* UAssetWriter.convertToUAsset and write, step by step.  wlog keeps what  *)
(* the writer serialised: the names of the name table, the entries of the  *)
(* import table and, per export, the entry with its final size and offset. *)

\* a reserved region too small for the summary
smallSummarySize == 8 * 8

\* const summarySize = 1024
summarySize == 1024

\* utxtData.Exports
ExportsOf(doc) == Get(doc, K_Exports)

\* the [name, exportData] pairs in the order both loops of writeExportTable
\* visit them
ExportPairs(doc) == ForIn(ExportsOf(doc))

\* the import entries writeImportTable serialises
ImportEntries(imps) ==
    [i \in 1..Len(imps) |->
        [ClassPackage |-> PartOr(Split(imps[i], 46), 1, S_CoreUObject),
         ClassName |-> PartOr(Split(imps[i], 46), 2, S_Class),
         OuterIndex |-> 0,
         ObjectName |-> PartOr(Split(imps[i], 46), 3, S_Object)]]

\* convertToUAsset up to `new UAssetWriter()`: JSON.parse and the two
\* checks of the Exports section
ReadUTXT ==
    /\ wpc = "read"
    /\ IF \/ ~given.parses
          \/ ~JsTruthy(ExportsOf(given.doc))
          \/ ~IsObjectType(ExportsOf(given.doc))
          \/ Len(ExportPairs(given.doc)) = 0
       THEN /\ wret' = "false"
            /\ wpc' = "done"
            /\ wdoc' = wdoc
       ELSE /\ wdoc' = given.doc
            /\ wpc' = "buildNameMap"
            /\ wret' = wret
    /\ UNCHANGED <<given, wnames, wimports, wbuf, woff, wi, wpos, wtab, wlog,
                   wout, reparse, parserVars, propVars, nameVars>>

\* write(): this.buildNameMap(utxtData)
BuildNameMap ==
    /\ wpc = "buildNameMap"
    /\ wnames' = buildNameMap(wdoc)
    /\ wpc' = "buildImportMap"
    /\ UNCHANGED <<given, wdoc, wimports, wbuf, woff, wi, wpos, wtab, wlog,
                   wout, wret, reparse, parserVars, propVars, nameVars>>

\* write(): this.buildImportMap(utxtData)
BuildImportMap ==
    /\ wpc = "buildImportMap"
    /\ \E r \in {buildImportMap(wdoc)} :
          /\ wimports' = r.imps
          /\ wpc' = IF r.st = "ok" THEN "writeNameTable" ELSE "failed"
    /\ UNCHANGED <<given, wdoc, wnames, wbuf, woff, wi, wpos, wtab, wlog,
                   wout, wret, reparse, parserVars, propVars, nameVars>>

\* write(): setOffset(summarySize), nameTableOffset = getOffset(),
\* writeNameTable()
WriteNameTable ==
    /\ wpc = "writeNameTable"
    /\ \E bytes \in {NameTableBytes(wnames, 1)} :
          /\ wbuf' = WriteAt(wbuf, summarySize, bytes)
          /\ woff' = summarySize + Len(bytes)
    /\ wtab' = <<summarySize, 0, 0>>
    /\ wlog' = [wlog EXCEPT !.names = wnames]
    /\ wpc' = "writeImportTable"
    /\ UNCHANGED <<given, wdoc, wnames, wimports, wi, wpos, wout, wret,
                   reparse, parserVars, propVars, nameVars>>

\* write(): importTableOffset = getOffset(), writeImportTable(),
\* exportTableOffset = getOffset()
WriteImportTable ==
    /\ wpc = "writeImportTable"
    /\ \E r \in {ImportTableLoop(wimports, 1, wnames, <<>>)} :
          /\ wnames' = r.names
          /\ wbuf' = WriteAt(wbuf, woff, r.bytes)
          /\ woff' = woff + Len(r.bytes)
          /\ wtab' = <<wtab[1], woff, woff + Len(r.bytes)>>
    /\ wlog' = [wlog EXCEPT !.imports = ImportEntries(wimports)]
    /\ wi' = 0
    /\ wpos' = <<>>
    /\ wpc' = "exportEntries"
    /\ UNCHANGED <<given, wdoc, wimports, wout, wret, reparse, parserVars,
                   propVars, nameVars>>

\* one iteration of the first loop of writeExportTable; writeUInt32 throws
\* on object flags that are not a number in range
WriteExportEntry ==
    /\ wpc = "exportEntries"
    /\ \E p \in {ExportPairs(wdoc)[wi + 1]}, n \in {getOrAddName(wnames, ExportPairs(wdoc)[wi + 1].k)} :
          IF ClassThrows(p.v) \/ ObjectFlagsBytes(p.v) = <<>>
          THEN /\ wpc' = "failed"
               /\ UNCHANGED <<wnames, wbuf, woff, wi, wpos>>
          ELSE /\ wnames' = n.names
               /\ wbuf' = WriteAt(wbuf, woff,
                             ExportEntryBytes(p.v, classIndexOf(p.v, wimports),
                                              n.index))
               /\ woff' = woff + 104
               /\ wpos' = Append(wpos, woff + 28)
               /\ IF wi + 1 = Len(ExportPairs(wdoc))
                  THEN wi' = 0 /\ wpc' = "exportData"
                  ELSE wi' = wi + 1 /\ wpc' = wpc
    /\ UNCHANGED <<given, wdoc, wimports, wtab, wlog, wout, wret, reparse,
                   parserVars, propVars, nameVars>>

\* the size and the offset written back the other way round
BackpatchSwapped(buf, offsetPos, dataSize, dataOffset) ==
    WriteAt(buf, offsetPos, I64LE(dataOffset) \o I64LE(dataSize))

\* setOffset(offsetPos), writeInt64(dataSize), writeInt64(dataOffset)
Backpatch(buf, offsetPos, dataSize, dataOffset) ==
    WriteAt(buf, offsetPos, I64LE(dataSize) \o I64LE(dataOffset))

\* one iteration of the second loop of writeExportTable:
\* writeExportDataDirect, then the size and the offset written back into
\* the entry
WriteExportData ==
    /\ wpc = "exportData"
    /\ \E p \in {ExportPairs(wdoc)[wi + 1]} :
       \E r \in {writeExportDataDirect(p.v, wnames)} :
          IF r.st # "ok"
          THEN /\ wpc' = "failed"
               /\ UNCHANGED <<wnames, wbuf, woff, wi, wlog>>
          ELSE /\ wnames' = r.names
               /\ wbuf' = Backpatch(WriteAt(wbuf, woff, r.bytes), wpos[wi + 1],
                                    Len(r.bytes), woff)
               /\ woff' = woff + Len(r.bytes)
               /\ wlog' = [wlog EXCEPT !.exports =
                             Append(@, [ObjectName |-> p.k,
                                        ClassIndex |-> classIndexOf(p.v, wimports),
                                        SerialSize |-> Len(r.bytes),
                                        SerialOffset |-> woff])]
               /\ IF wi + 1 = Len(ExportPairs(wdoc))
                  THEN wi' = 0 /\ wpc' = "writeSummary"
                  ELSE wi' = wi + 1 /\ wpc' = wpc
    /\ UNCHANGED <<given, wdoc, wimports, wpos, wtab, wout, wret, reparse,
                   parserVars, propVars, nameVars>>

\* write(): setOffset(0), writePackageSummary(...), setOffset(endOffset)
WritePackageSummary ==
    /\ wpc = "writeSummary"
    /\ wbuf' = WriteAt(wbuf, 0,
                   writePackageSummary(wtab[1], Len(wnames), wtab[2],
                                       Len(wimports), wtab[3],
                                       Len(ExportPairs(wdoc)), woff))
    /\ wpc' = "save"
    /\ UNCHANGED <<given, wdoc, wnames, wimports, woff, wi, wpos, wtab, wlog,
                   wout, wret, reparse, parserVars, propVars, nameVars>>

\* write() returns getBuffer(); convertToUAsset writes the file and
\* returns true
SaveUAsset ==
    /\ wpc = "save"
    /\ wout' = [exists |-> TRUE, bytes |-> getBuffer(wbuf, woff)]
    /\ wret' = "true"
    /\ wpc' = "done"
    /\ UNCHANGED <<given, wdoc, wnames, wimports, wbuf, woff, wi, wpos, wtab,
                   wlog, reparse, parserVars, propVars, nameVars>>

\* an exception in write(): rethrown, caught by convertToUAsset, which
\* returns false and writes no file
WriteFailed ==
    /\ wpc = "failed"
    /\ wret' = "false"
    /\ wpc' = "done"
    /\ UNCHANGED <<given, wdoc, wnames, wimports, wbuf, woff, wi, wpos, wtab,
                   wlog, wout, reparse, parserVars, propVars, nameVars>>

\* the summary and the three tables UAssetParser.parse reads from a
\* buffer; at: the stage that threw
ParseTables(buf) ==
    With(readPackageFileSummary(buf), LAMBDA s :
      IF s.st # "ok" THEN [st |-> "failed", at |-> "summary", err |-> s.st]
      ELSE With(readNameTable(buf, s.le, s.f), LAMBDA n :
        IF n.st # "ok"
        THEN [st |-> "failed", at |-> "names", err |-> n.st, summary |-> s.f]
        ELSE With(readImportTable(buf, s.le, s.f, n.names), LAMBDA i :
          IF i.st # "ok"
          THEN [st |-> "failed", at |-> "imports", err |-> i.st,
                summary |-> s.f, names |-> n.names]
          ELSE With(readExportTable(buf, s.le, s.f, n.names), LAMBDA e :
            IF e.st # "ok"
            THEN [st |-> "failed", at |-> "exports", err |-> e.st,
                  summary |-> s.f, names |-> n.names, imports |-> i.imports]
            ELSE [st |-> "ok", summary |-> s.f, names |-> n.names,
                  imports |-> i.imports, exports |-> e.exports]))))

\* new UAssetParser(bytes of the file written).parse(), as far as the
\* tables
Reparse ==
    /\ wpc = "done"
    /\ wout.exists
    /\ reparse.st = "none"
    /\ reparse' = ParseTables(wout.bytes)
    /\ UNCHANGED <<given, wdoc, wnames, wimports, wbuf, woff, wpc, wi, wpos, wtab,
                   wlog, wout, wret, parserVars, propVars, nameVars>>

\* "Class /Script/Engine.Blueprint"
S_ClassBlueprint == S_ClassSp \o S_Script \o S_Engine \o <<46>> \o S_Blueprint

\* "Properties"-less payload whose RawData holds the bytes
RawValue(bytes) ==
    VObj(<<KV(K_RawData,
              VObj(<<KV(K_Base64,
                        VArr([i \in 1..Len(bufferToBase64Chunks(bytes)) |->
                                 VStr(bufferToBase64Chunks(bytes)[i])]))>>))>>)

\* exports of a document
XRaw(n) == VObj(<<KV(K___Class, VStr(S_ClassBlueprint)), KV(K___Value, RawValue(RawBytes(n)))>>)
XBare == VObj(<<KV(K___Class, VStr(S_ClassBlueprint))>>)
XEmpty == VObj(<<>>)
XFlags == VObj(<<KV(K___ObjectFlags, VInt(8)), KV(K___bIsAsset, VBool(TRUE)), KV(K___Value, RawValue(RawBytes(5)))>>)
XWidget == VObj(<<KV(K___Class, VStr(S_ClassSp \o S_ScriptUMG \o <<46>> \o S_CanvasPanel)), KV(K___Value, RawValue(RawBytes(12)))>>)
\* an export whose class path has the class path of XWidget as a prefix
XSlot == VObj(<<KV(K___Class, VStr(S_ClassSp \o S_ScriptUMG \o <<46>> \o S_CanvasPanelSlot)), KV(K___Value, RawValue(RawBytes(3)))>>)
XBadClass == VObj(<<KV(K___Class, VInt(5))>>)
XBadFlags == VObj(<<KV(K___ObjectFlags, VStr(N_hi))>>)
XBadData == VObj(<<KV(K___Value, VObj(<<KV(K_RawData, VObj(<<KV(K_Base64, VInt(5))>>))>>))>>)

GoodExports == <<XRaw(0), XRaw(3), XRaw(40), XBare, XEmpty, XFlags, XWidget>>
BadExports == <<VNull, XBadClass, XBadFlags, XBadData>>

\* a document with the given exports, named Foo, Bar, Baz in this order
DocOf(xs) ==
    VObj(<<KV(K_Exports,
              VObj([i \in 1..Len(xs) |-> KV(<<N_Foo, N_Bar, N_Baz>>[i], xs[i])]))>>)

\* the documents written: all have at least one export
GoodDocs ==
    [i \in 1..7 |-> DocOf(<<GoodExports[i]>>)]
    \o [i \in 1..7 |-> DocOf(<<XRaw(3), GoodExports[i]>>)]
    \o [i \in 1..7 |-> DocOf(<<XBare, GoodExports[i]>>)]
    \o <<DocOf(<<XRaw(3), XBare, XWidget>>),
         DocOf(<<XWidget, XSlot>>),
         DocOf(<<XSlot, XWidget>>)>>

\* documents with an export the writer throws on
BadDocs ==
    [i \in 1..4 |-> DocOf(<<BadExports[i]>>)]
    \o [i \in 1..4 |-> DocOf(<<XRaw(3), BadExports[i]>>)]

\* the bytes kept at candidate location i
BytesAt(i) == RawBytes(i + 2)

\* a Base64 member holding the bytes, as a list of chunks
Chunked(bytes) ==
    VArr([i \in 1..Len(bufferToBase64Chunks(bytes)) |->
             VStr(bufferToBase64Chunks(bytes)[i])])

\* the member key (holding the object inner) when v is there
Member(key, v, inner) == IF v = VUndef THEN <<>> ELSE <<KV(key, inner)>>

Base64Of(v) == VObj(<<KV(K_Base64, v)>>)

\* an export with the Base64 values b[1]..b[6] at the six locations
\* writeExportDataDirect looks at (VUndef: no such member), and with a
\* Properties member when props
XCandidates(b, props) ==
    VObj(<<KV(K___Class, VStr(S_ClassBlueprint)),
           KV(K___Value,
              VObj((IF props
                    THEN <<KV(K_Properties, VObj(<<KV(N_Foo, VInt(1))>>))>>
                    ELSE <<>>)
                   \o Member(K_RawData, b[1], Base64Of(b[1]))
                   \o Member(K_BaseClassAutoGen, b[2],
                             VObj(<<KV(K_Data, Base64Of(b[2]))>>))
                   \o Member(K_Data, b[3], Base64Of(b[3]))))>>
         \o Member(K_RawData, b[4], Base64Of(b[4]))
         \o Member(K_BaseClassAutoGen, b[5],
                   VObj(<<KV(K_Data, Base64Of(b[5]))>>))
         \o Member(K_Data, b[6], Base64Of(b[6])))

\* bytes at the locations of the set at, nothing elsewhere
Located(at) == [i \in 1..6 |-> IF i \in at THEN Chunked(BytesAt(i)) ELSE VUndef]

\* exports with raw bytes at one location, at several, at none; with an
\* empty chunk list or an empty string before a location with bytes; with
\* a string that starts with "Base64:"; and with a Properties member
CandidateExports ==
    [i \in 1..6 |-> XCandidates(Located({i}), FALSE)]
    \o <<XCandidates(Located({1, 4}), FALSE),
         XCandidates(Located({2, 3}), FALSE),
         XCandidates(Located({3, 6}), FALSE),
         XCandidates(Located({4, 5}), FALSE),
         XCandidates(Located({5, 6}), FALSE),
         XCandidates(Located({2, 4, 6}), FALSE),
         XCandidates(Located({}), FALSE),
         XCandidates([Located({4}) EXCEPT ![1] = VArr(<<>>)], FALSE),
         XCandidates([Located({6}) EXCEPT ![2] = VStr(<<>>)], FALSE),
         XCandidates([Located({5}) EXCEPT
                         ![3] = VStr(S_Base64Colon \o ToBase64(BytesAt(3)))],
                     FALSE),
         XCandidates(Located({1}), TRUE),
         XCandidates(Located({1, 4}), TRUE),
         XCandidates(Located({3}), TRUE),
         XCandidates([Located({4}) EXCEPT ![1] = VArr(<<>>)], TRUE),
         XCandidates([Located({}) EXCEPT ![1] = VArr(<<>>)], TRUE)>>

CandidateDocs ==
    [i \in 1..Len(CandidateExports) |-> DocOf(<<XRaw(3), CandidateExports[i]>>)]

\* documents convertToUAsset rejects, and a file that is not JSON
WriteInputs ==
    [i \in 1..Len(GoodDocs \o BadDocs \o CandidateDocs) |->
        [parses |-> TRUE, doc |-> (GoodDocs \o BadDocs \o CandidateDocs)[i]]]
    \o <<[parses |-> TRUE, doc |-> VObj(<<>>)],
         [parses |-> TRUE, doc |-> DocOf(<<>>)],
         [parses |-> TRUE, doc |-> VObj(<<KV(K_Exports, VInt(3))>>)],
         [parses |-> FALSE, doc |-> VUndef]>>

InitWrite ==
    /\ \E k \in 1..Len(WriteInputs) : given = WriteInputs[k]
    /\ wdoc = VUndef
    /\ wnames = <<>>
    /\ wimports = <<>>
    /\ wbuf = <<>>
    /\ woff = 0
    /\ wpc = "read"
    /\ wi = 0
    /\ wpos = <<>>
    /\ wtab = <<0, 0, 0>>
    /\ wlog = NoLog
    /\ wout = NoFile
    /\ wret = "none"
    /\ reparse = [st |-> "none"]
    /\ ParserIdle
    /\ PropIdle
    /\ NameIdle

NextWrite ==
    \/ ReadUTXT
    \/ BuildNameMap
    \/ BuildImportMap
    \/ WriteNameTable
    \/ WriteImportTable
    \/ WriteExportEntry
    \/ WriteExportData
    \/ WritePackageSummary
    \/ SaveUAsset
    \/ WriteFailed
    \/ Reparse

SpecWrite == InitWrite /\ [][NextWrite]_vars

\* the four fields of an import record the writer serialises
ImportFields(imp) ==
    [ClassPackage |-> imp.ClassPackage, ClassName |-> imp.ClassName,
     OuterIndex |-> imp.OuterIndex, ObjectName |-> imp.ObjectName]

\* the fields of an export record that vary from export to export
ExportFields(exp) ==
    [ObjectName |-> exp.ObjectName, ClassIndex |-> exp.ClassIndex,
     SerialSize |-> exp.SerialSize, SerialOffset |-> exp.SerialOffset]

\* the parser read the counts and offsets the writer used
SameCountsAndOffsets ==
    /\ reparse.summary.NameCount = Len(wlog.names)
    /\ reparse.summary.NameOffset = wtab[1]
    /\ reparse.summary.ImportCount = Len(wlog.imports)
    /\ reparse.summary.ImportOffset = wtab[2]
    /\ reparse.summary.ExportCount = Len(wlog.exports)
    /\ reparse.summary.ExportOffset = wtab[3]

\* the parser read the entries the writer serialised
SameEntries ==
    /\ reparse.names = wlog.names
    /\ [i \in 1..Len(reparse.imports) |-> ImportFields(reparse.imports[i])]
          = wlog.imports
    /\ [i \in 1..Len(reparse.exports) |-> ExportFields(reparse.exports[i])]
          = wlog.exports

\* C1: the buffer UAssetWriter.write produces for a document with at least
\* one export is re-decodable: UAssetParser.parse reads it without a hard
\* failure and reads back the name, import and export tables (counts,
\* offsets, entries) the writer serialised.
C1_Redecodable ==
    reparse.st # "none" =>
        /\ reparse.st = "ok"
        /\ SameCountsAndOffsets
        /\ SameEntries

\* the first half of C1 alone: no hard failure
C1_NoHardFailure == reparse.st # "none" => reparse.st = "ok"

\* the counts and offsets of C1 alone, when the tables were read
C1_CountsAndOffsets == reparse.st = "ok" => SameCountsAndOffsets

-----------------------------------------------------------------------------
(* The data the writer emits for an export (C17).                          *)

\* the candidate locations of an export, in the order of the fallback
CandidateOrder(x) ==
    <<Get(Get(Get(x, K___Value), K_RawData), K_Base64),
      Get(Get(Get(Get(x, K___Value), K_BaseClassAutoGen), K_Data), K_Base64),
      Get(Get(Get(x, K___Value), K_Data), K_Base64),
      Get(Get(x, K_RawData), K_Base64),
      Get(Get(Get(x, K_BaseClassAutoGen), K_Data), K_Base64),
      Get(Get(x, K_Data), K_Base64)>>

\* the raw bytes a Base64 member holds
HeldBytes(v) ==
    IF IsBase64Data(v) THEN FromBase64(cleanBase64(combinedBase64(v))) ELSE <<>>

\* the locations of an export that hold raw bytes
Holding(x) == {i \in 1..6 : Len(HeldBytes(CandidateOrder(x)[i])) > 0}

\* the 8 bytes of a reference to the name None
NoneReference == FNameBytes(getOrAddName(wnames, S_None).index, 0)

\* the bytes of the first location that holds any, the reference to None
\* when no location does
FallbackData(x) ==
    IF Holding(x) = {} THEN NoneReference
    ELSE HeldBytes(CandidateOrder(x)[CHOOSE i \in Holding(x) :
                                        \A j \in Holding(x) : i <= j])

\* the data written for export k (1-based)
WrittenData(k) ==
    SubSeq(wbuf, wlog.exports[k].SerialOffset + 1,
           wlog.exports[k].SerialOffset + wlog.exports[k].SerialSize)

\* the export has a Properties member and a Base64 member of
\* __Value.RawData: the writer's first branch
PropertiesBranch(x) ==
    /\ JsTruthy(Get(Get(x, K___Value), K_Properties))
    /\ JsTruthy(CandidateOrder(x)[1])

\* C17: for one export the writer emits the bytes of the first candidate
\* location, in the order __Value.RawData, __Value.BaseClassAutoGen.Data,
\* __Value.Data, RawData, BaseClassAutoGen.Data, Data, that holds preserved
\* raw bytes, and of that one only; when none holds bytes it writes a
\* single reference to the name None.
C17_FirstCandidate ==
    \A k \in 1..Len(wlog.exports) :
        WrittenData(k) = FallbackData(ExportPairs(wdoc)[k].v)

\* the same for the exports that do not take the writer's first branch
C17_CandidateLoop ==
    \A k \in 1..Len(wlog.exports) :
        ~PropertiesBranch(ExportPairs(wdoc)[k].v) =>
            WrittenData(k) = FallbackData(ExportPairs(wdoc)[k].v)

\* the first branch writes what __Value.RawData decodes to, were it
\* nothing, and neither another location nor the reference to None
C17_PropertiesBranch ==
    \A k \in 1..Len(wlog.exports) :
        PropertiesBranch(ExportPairs(wdoc)[k].v) =>
            WrittenData(k)
                = FromBase64(combinedBase64(CandidateOrder(ExportPairs(wdoc)[k].v)[1]))

-----------------------------------------------------------------------------
(* The ranges written back into the export table (C18) and what writing    *)
(* back changes (C19).                                                     *)

\* writeExportTable has returned
TableWritten == wpc \in {"writeSummary", "save"}

\* the offset of entry k (1-based) of the export table written
EntryAt(k) == wtab[3] + 104 * (k - 1)

\* the size and the offset that stand in entry k of the output
PatchedSize(k) == Int64At(wbuf, EntryAt(k) + 28, TRUE)
PatchedOffset(k) == Int64At(wbuf, EntryAt(k) + 36, TRUE)

\* the end of the export table
TableEnd == wtab[3] + 104 * Len(ExportPairs(wdoc))

\* every export whose data is written has in its entry the start and the
\* length of that data, and the data is there
RangesPatched ==
    \A k \in 1..Len(wlog.exports) :
        /\ PatchedOffset(k) = wlog.exports[k].SerialOffset
        /\ PatchedSize(k) = wlog.exports[k].SerialSize
        /\ SubSeq(wbuf, PatchedOffset(k) + 1, PatchedOffset(k) + PatchedSize(k))
              = writeExportDataDirect(ExportPairs(wdoc)[k].v, wnames).bytes

\* the ranges follow one another from the end of the table, in export
\* order, up to the end of the output
RangesContiguous ==
    /\ Len(wlog.exports) > 0 => PatchedOffset(1) = TableEnd
    /\ \A k \in 1..(Len(wlog.exports) - 1) :
          PatchedOffset(k + 1) = PatchedOffset(k) + PatchedSize(k)
    /\ \A k \in 1..Len(wlog.exports) :
          /\ PatchedSize(k) >= 0
          /\ PatchedOffset(k) >= TableEnd
    /\ TableWritten =>
          /\ Len(wlog.exports) = Len(ExportPairs(wdoc))
          /\ PatchedOffset(Len(wlog.exports)) + PatchedSize(Len(wlog.exports))
                = woff

\* C18: after writeExportTable the SerialOffset and SerialSize written
\* back into each export's entry are the start and the length of the
\* bytes written for that export; the ranges of distinct exports are
\* disjoint, contiguous and in export order, and lie after the end of the
\* export table.
C18_BackpatchedRanges ==
    wpc \in {"exportData", "writeSummary", "save"} =>
        RangesPatched /\ RangesContiguous

\* three exports have their ranges written back, two of them not empty
C18_Witness ==
    /\ TableWritten
    /\ Len(wlog.exports) = 3
    /\ PatchedSize(1) > 0
    /\ PatchedSize(3) > 0
    /\ PatchedOffset(3) > PatchedOffset(1)

\* the bytes of two buffers are the same at every position of 1..upto
\* outside lo+1..hi
SameOutside(a, b, upto, lo, hi) ==
    \A i \in 1..upto : (i <= lo \/ i > hi) => a[i] = b[i]

\* writing the summary changes only bytes of the reserved region and no
\* length
SummaryStep ==
    (wpc = "writeSummary" /\ wpc' = "save") =>
        /\ Len(wbuf') = Len(wbuf)
        /\ woff' = woff
        /\ SameOutside(wbuf', wbuf, Len(wbuf), 0, summarySize)
        /\ Len(writePackageSummary(wtab[1], Len(wnames), wtab[2],
                                   Len(wimports), wtab[3],
                                   Len(ExportPairs(wdoc)), woff)) <= summarySize

\* writing an export's data and its range changes, in the output written
\* before, the 16 bytes of the range only
PatchStep ==
    (wpc = "exportData" /\ Len(wlog'.exports) = Len(wlog.exports) + 1) =>
        /\ Len(wbuf) = woff
        /\ Len(wbuf') = woff'
        /\ woff' = woff + Int64At(wbuf', wpos[wi + 1], TRUE)
        /\ Int64At(wbuf', wpos[wi + 1] + 8, TRUE) = woff
        /\ SameOutside(wbuf', wbuf, woff, wpos[wi + 1], wpos[wi + 1] + 16)
        /\ wpos[wi + 1] = EntryAt(wi + 1) + 28

\* the file saved is as long as the output was before the summary was
\* written
FinalLength == wout.exists => Len(wout.bytes) = woff

\* C19: writing back never changes the length of the output written
\* before, only content inside the reserved fields: the summary changes
\* only bytes of the 1024-byte reserved region, which it never exceeds;
\* patching an export's size and offset changes only those 16 bytes; the
\* final buffer is as long as the end offset reached before patching.
C19_BackpatchKeepsLength ==
    []FinalLength /\ [][SummaryStep /\ PatchStep]_vars

\* a file of three exports has been saved with its summary written
C19_Witness ==
    /\ wout.exists
    /\ Len(wlog.exports) = 3
    /\ Len(wout.bytes) > TableEnd
    /\ SubSeq(wout.bytes, 1, 4) = U32LE(PACKAGE_FILE_TAG)

-----------------------------------------------------------------------------
(* Cross references: one value v resolved against an import and an export  *)
(* table by resolveObjectReference (the value of an object property) and   *)
(* by getExportClassName (the class reference of an export record).        *)

RefImports ==
    <<[ClassPackage |-> S_ScriptUMG, ClassName |-> S_Class, OuterIndex |-> 0,
       ObjectName |-> S_CanvasPanel],
      [ClassPackage |-> S_ScriptEngine, ClassName |-> S_Class, OuterIndex |-> 0,
       ObjectName |-> N_Baz]>>

RefExports ==
    <<[ObjectName |-> N_Foo, ClassIndex |-> -1],
      [ObjectName |-> N_Bar, ClassIndex |-> 1]>>

\* the reference values tried
RefValues == {MinInt32, -2147483647, -4, -3, -2, -1, 0, 1, 2, 3, 4, 2147483647}

CrossRefs ==
    {[v |-> v, imports |-> SubSeq(RefImports, 1, ni),
      exports |-> SubSeq(RefExports, 1, ne)] :
        v \in RefValues, ni \in 0..2, ne \in 0..2}

\* PropertySerializer.resolveObjectReference(v)
ResolveObjectReference ==
    /\ xres.object.st = "none"
    /\ xres' = [xres EXCEPT !.object =
                   [st |-> "ok",
                    v |-> resolveObjectReference(xref.v, xref.imports,
                                                 xref.exports)]]
    /\ UNCHANGED <<given, nref, nres, xref, fstr, fres, parserVars, writerVars,
                   propVars>>

\* UAssetParser.getExportClassName(exp) for an export whose ClassIndex is v
GetExportClassName ==
    /\ xres.class.st = "none"
    /\ xres' = [xres EXCEPT !.class =
                   [st |-> "ok",
                    v |-> getExportClassName([ObjectName |-> N_MyStruct,
                                              ClassIndex |-> xref.v],
                                             xref.imports, xref.exports)]]
    /\ UNCHANGED <<given, nref, nres, xref, fstr, fres, parserVars, writerVars,
                   propVars>>

InitRefs ==
    /\ xref \in CrossRefs
    /\ xres = [object |-> NoRes, class |-> NoRes, full |-> NoRes]
    /\ fstr = <<>>
    /\ fres = [written |-> NoRes, parser |-> NoRes, serializer |-> NoRes]
    /\ nref = [names |-> <<>>, index |-> 0, instance |-> 0, typeInstance |-> 0]
    /\ nres = [byIndex |-> NoRes, fname |-> NoRes, name |-> NoRes, tag |-> NoRes]
    /\ given = VUndef
    /\ ParserIdle
    /\ WriterIdle
    /\ PropIdle

NextRefs ==
    \/ ResolveObjectReference
    \/ GetExportClassName

SpecRefs == InitRefs /\ [][NextRefs]_vars

\* what the convention makes of the value: "none", "export", "import", or
\* "outside" when the table has no such entry
TargetOf(x) ==
    IF x.v = 0 THEN "none"
    ELSE IF x.v > 0
    THEN IF x.v - 1 < Len(x.exports) THEN "export" ELSE "outside"
    ELSE IF x.v # MinInt32 /\ (-x.v) - 1 < Len(x.imports) THEN "import"
    ELSE "outside"

\* the entries the value selects
TargetExport(x) == x.exports[x.v]
TargetImport(x) == x.imports[-x.v]

\* the placeholder ObjectIndex:v
Placeholder(v) == S_ObjectIndexColon \o DecInt(v)

\* the value of an object property follows the convention
ObjectFollows ==
    xres.object.st # "none" =>
        /\ xres.object.st = "ok"
        /\ TargetOf(xref) = "none" => xres.object.v = S_None
        /\ TargetOf(xref) = "export" =>
              /\ StartsWith(xres.object.v, S_ObjectColon)
              /\ EndsWith(xres.object.v, TargetExport(xref).ObjectName)
        /\ TargetOf(xref) = "import" =>
              xres.object.v = S_ObjectColon \o TargetImport(xref).ClassName
                              \o <<32>> \o TargetImport(xref).ObjectName
        /\ TargetOf(xref) = "outside" => xres.object.v = Placeholder(xref.v)

\* the class reference of an export follows the convention
ClassFollows ==
    xres.class.st # "none" =>
        /\ xres.class.st = "ok"
        /\ TargetOf(xref) = "none" => xres.class.v = S_None
        /\ TargetOf(xref) = "export" =>
              xres.class.v = S_ClassSp \o TargetExport(xref).ObjectName
        /\ TargetOf(xref) = "import" =>
              EndsWith(xres.class.v, <<46>> \o TargetImport(xref).ObjectName)
        /\ TargetOf(xref) = "outside" => xres.class.v = Placeholder(xref.v)

\* C11: cross-reference resolution follows the signed-index convention and
\* never throws: 0 gives "None", v > 0 export v - 1, v < 0 import |v| - 1,
\* and a target outside its table gives the placeholder ObjectIndex:v.
C11_SignedIndex == ObjectFollows /\ ClassFollows

\* what getExportClassName does: the convention for a target inside its
\* table, the default class for 0 and for a target outside its table
C11_ClassDefault ==
    xres.class.st # "none" =>
        /\ xres.class.st = "ok"
        /\ TargetOf(xref) = "export" =>
              xres.class.v = S_ClassSp \o TargetExport(xref).ObjectName
        /\ TargetOf(xref) = "import" =>
              EndsWith(xres.class.v, <<46>> \o TargetImport(xref).ObjectName)
        /\ TargetOf(xref) \in {"none", "outside"} =>
              xres.class.v = S_ClassScriptEngineBlueprint

-----------------------------------------------------------------------------
(* Length-prefixed strings (C20).                                          *)

\* the longest string given to writeFString
MaxStrLen == 2

\* code units: NUL, a letter, the last 7-bit unit, the first 8-bit unit,
\* a Latin-1 letter, the last 8-bit unit, the first 16-bit unit, a CJK
\* ideograph, a lone high surrogate, the last unit
Units == {0, 65, 127, 128, 233, 255, 256, 20013, 55357, 65535}

Strings == UNION {[1..n -> Units] : n \in 0..MaxStrLen}

\* bytes already in the writer before the string
Lead == <<171, 205, 239>>

\* bytes that follow the string in the file
Trail == <<1, 0, 0, 0, 90>>

\* BufferWriter.writeFString(fstr) with the cursor at 0 or after Lead
WriteFString ==
    /\ fres.written.st = "none"
    /\ \E before \in {<<>>, Lead} :
          fres' = [fres EXCEPT !.written =
                      [st |-> "ok", at |-> Len(before),
                       bytes |-> FStringBytes(fstr),
                       buf |-> before \o FStringBytes(fstr) \o Trail]]
    /\ UNCHANGED <<given, nref, nres, xref, xres, fstr, parserVars, writerVars,
                   propVars>>

\* UAssetParser.readFString() with the cursor where the string was written
ReadFString ==
    /\ fres.written.st = "ok"
    /\ fres.parser.st = "none"
    /\ fres' = [fres EXCEPT !.parser =
                   IF ~InBuf(fres.written.buf, fres.written.at, 4)
                   THEN [st |-> "RangeError", off |-> fres.written.at,
                         str |-> <<>>]
                   ELSE With(FStringAt(fres.written.buf, fres.written.at, TRUE),
                             LAMBDA r : [st |-> "ok", off |-> r.off,
                                         str |-> r.str])]
    /\ UNCHANGED <<given, nref, nres, xref, xres, fstr, parserVars, writerVars,
                   propVars>>

\* PropertySerializer.readString() with the cursor where the string was
\* written
ReadString ==
    /\ fres.written.st = "ok"
    /\ fres.serializer.st = "none"
    /\ fres' = [fres EXCEPT !.serializer =
                   With(PreadString(fres.written.buf, fres.written.at),
                        LAMBDA r : [st |-> r.st, off |-> r.off, str |-> r.v])]
    /\ UNCHANGED <<given, nref, nres, xref, xres, fstr, parserVars, writerVars,
                   propVars>>

InitStrings ==
    /\ fstr \in Strings
    /\ fres = [written |-> NoRes, parser |-> NoRes, serializer |-> NoRes]
    /\ xref = [v |-> 0, imports |-> <<>>, exports |-> <<>>]
    /\ xres = [object |-> NoRes, class |-> NoRes, full |-> NoRes]
    /\ nref = [names |-> <<>>, index |-> 0, instance |-> 0, typeInstance |-> 0]
    /\ nres = [byIndex |-> NoRes, fname |-> NoRes, name |-> NoRes, tag |-> NoRes]
    /\ given = VUndef
    /\ ParserIdle
    /\ WriterIdle
    /\ PropIdle

NextStrings ==
    \/ WriteFString
    \/ ReadFString
    \/ ReadString

SpecStrings == InitStrings /\ [][NextStrings]_vars

\* every code unit of the string is a 7-bit character, the ones that take a
\* single byte
SingleByte(str) == \A i \in 1..Len(str) : str[i] < 128

\* the prefix written for the string
Prefix == Int32At(fres.written.bytes, 0, TRUE)

\* the code units after the prefix, two bytes each, low byte first
WideUnits ==
    [i \in 1..((Len(fres.written.bytes) - 4) \div 2) |->
        fres.written.bytes[3 + 2 * i] + 256 * fres.written.bytes[4 + 2 * i]]

\* 0 for the empty string; len+1 and the text with a terminator, a byte
\* each; -(len+1) and the code units with a terminator, two bytes each
PrefixRule ==
    /\ Len(fstr) = 0 => fres.written.bytes = <<0, 0, 0, 0>>
    /\ Len(fstr) > 0 /\ SingleByte(fstr) =>
          /\ Prefix = Len(fstr) + 1
          /\ SubSeq(fres.written.bytes, 5, Len(fres.written.bytes))
                = fstr \o <<0>>
    /\ Len(fstr) > 0 /\ ~SingleByte(fstr) =>
          /\ Prefix = -(Len(fstr) + 1)
          /\ Len(fres.written.bytes) = 4 + 2 * (Len(fstr) + 1)
          /\ WideUnits = fstr \o <<0>>

\* the reader returned the string and stopped right after the bytes written
ReadBack(r) ==
    r.st # "none" =>
        /\ r.st = "ok"
        /\ r.str = fstr
        /\ r.off = fres.written.at + Len(fres.written.bytes)

\* C20: readFString (and the serializer's readString) applied to the bytes
\* writeFString(s) produced returns s and consumes exactly the bytes
\* written; the prefix is 0 for the empty string, len+1 with single-byte
\* text and a terminator when s has only single-byte characters, and
\* -(len+1) with 2*(len+1) bytes of UTF-16 code units and terminator
\* otherwise.
C20_FStringRoundTrip ==
    /\ fres.written.st = "ok" => PrefixRule
    /\ ReadBack(fres.parser)
    /\ ReadBack(fres.serializer)

\* a string of a letter and an ideograph, written after other bytes and read
\* back by both readers
C20_Witness ==
    /\ fstr = <<65, 20013>>
    /\ fres.written.st = "ok"
    /\ fres.written.at = 3
    /\ Prefix = -3
    /\ fres.parser.st = "ok"
    /\ fres.parser.str = <<65, 20013>>
    /\ fres.serializer.st = "ok"
    /\ fres.serializer.off = 13

-----------------------------------------------------------------------------
(* Termination of the property decoder (C21).                              *)

\* The decode loop's future is a function of the cursor: the buffer and
\* the name table never change and the properties decoded so far are not
\* read.  A tag decoded at an offset where a tag was decoded before is
\* therefore a loop that repeats for ever.
TagRevisited ==
    \E i, j \in 1..Len(porder) : i < j /\ porder[i].at = porder[j].at

\* the iteration that ends by going back to the loop test leaves the
\* cursor after the offset its tag was read at
IterationAdvances ==
    pstate = "ReadValue" /\ pstate' = "ExpectTag" => poff' > ptag.at

\* C21 (as stated): deserializeProperties terminates on every input: the
\* loop never comes back to an offset it decoded a tag at, no nested decode
\* runs for ever, and every iteration that does not stop the loop leaves
\* the cursor strictly after the place it started from, whatever the
\* declared size of the tag.
C21_Terminates ==
    /\ [](~TagRevisited /\ pstate # "Hung")
    /\ [][IterationAdvances]_vars

\* C21 (nesting): the nested decoder of a generic struct is given a part of
\* the parent buffer that starts after the struct's tag and is shorter
\* than the parent buffer, so the depth of nested decodes is at most the
\* length of the outermost buffer, whatever the declared size.
C21_NestingBounded ==
    pstruct.has =>
        /\ pstruct.hi - pstruct.lo < Len(pbuf)
        /\ pstruct.hi - pstruct.lo >= 0
        /\ pstruct.lo > 0

\* C21 (natural sizes): when no tag declares a negative size, every
\* iteration that goes on leaves the cursor after its tag.
C21_AdvancesWhenSizeNatural ==
    [][ptag.null = FALSE /\ ptag.Size >= 0 => IterationAdvances]_vars

\* a struct whose declared size is minus the length of its tag has been
\* decoded twice at offset 0
C21_WitnessLoop ==
    /\ given.kind = "frame"
    /\ Len(porder) >= 2
    /\ porder[1].at = 0
    /\ porder[2].at = 0

\* the nested decoder of a generic struct never returned
C21_WitnessNested ==
    /\ given.kind = "hang"
    /\ pstate = "Hung"
    /\ pstruct.has
    /\ pstruct.hung

-----------------------------------------------------------------------------
(* The fully-qualified name of an export (C22).                            *)

\* the longest export table walked
MaxExports == 3

\* "Default__Foo"
N_Default__Foo == S_Default__ \o N_Foo
\* "ExecuteUbergraph_Foo"
N_ExecuteUbergraph_Foo == S_ExecuteUbergraph_ \o N_Foo

\* the object names of the tables walked
OuterNames ==
    <<N_Foo, N_Default__Foo, N_Bar, N_ExecuteUbergraph_Foo, S_WidgetTree>>

\* the outer reference of record k (1-based) of a table of n records:
\* none, an import, the record before, the record after, the record after
\* with the last one pointing past the table, a ring, the record itself
OuterShapes == {"flat", "import", "up", "down", "beyond", "ring", "self"}

ShapedOuter(shape, n, k) ==
    IF shape = "flat" THEN 0
    ELSE IF shape = "import" THEN -k
    ELSE IF shape = "up" THEN k - 1
    ELSE IF shape = "down" THEN (IF k < n THEN k + 1 ELSE 0)
    ELSE IF shape = "beyond" THEN k + 1
    ELSE IF shape = "ring" THEN (IF k < n THEN k + 1 ELSE 1)
    ELSE k

OuterRecord(name, outer) ==
    [ObjectName |-> name, OuterIndex |-> outer, bIsAsset |-> FALSE]

\* a table of n records of a shape, the names taken in turn
ShapedTable(shape, n) ==
    [k \in 1..n |->
        OuterRecord(OuterNames[((k - 1) % Len(OuterNames)) + 1],
                    ShapedOuter(shape, n, k))]

\* the tables walked: every shape, with one record given any name and any
\* outer reference from -1 to one past the table, and the export the walk
\* starts from
OuterTables ==
    {[v |-> i, imports |-> <<>>,
      exports |-> [ShapedTable(shape, n) EXCEPT ![j] = OuterRecord(OuterNames[m], o)]] :
        shape \in OuterShapes, n \in 1..MaxExports, j \in 1..MaxExports,
        m \in 1..Len(OuterNames), o \in -1..(MaxExports + 1),
        i \in 0..(MaxExports - 1)}

\* UAssetParser.buildFullExportName(this.exports[xref.v], xref.v)
BuildFullExportName ==
    /\ xres.full.st = "none"
    /\ xref.v < Len(xref.exports)
    /\ xres' = [xres EXCEPT !.full = buildFullExportName(xref.exports, xref.v)]
    /\ UNCHANGED <<given, nref, nres, xref, fstr, fres, parserVars, writerVars,
                   propVars>>

InitOuter ==
    /\ xref \in {t \in OuterTables :
                    /\ t.v < Len(t.exports)
                    /\ DOMAIN t.exports = 1..Len(t.exports)}
    /\ xres = [object |-> NoRes, class |-> NoRes, full |-> NoRes]
    /\ fstr = <<>>
    /\ fres = [written |-> NoRes, parser |-> NoRes, serializer |-> NoRes]
    /\ nref = [names |-> <<>>, index |-> 0, instance |-> 0, typeInstance |-> 0]
    /\ nres = [byIndex |-> NoRes, fname |-> NoRes, name |-> NoRes, tag |-> NoRes]
    /\ given = VUndef
    /\ ParserIdle
    /\ WriterIdle
    /\ PropIdle

NextOuter == BuildFullExportName

SpecOuter == InitOuter /\ [][NextOuter]_vars

\* the outer reference of the record designates a record of the table
HasOuterExport(exps, k) ==
    exps[k].OuterIndex > 0 /\ exps[k].OuterIndex <= Len(exps)

\* the chains of a table: the records (1-based) from the one at start
\* following outer references, none visited twice, up to the first record
\* whose outer reference is zero, negative or out of range
ChainsFrom(exps, start) ==
    {c \in UNION {[1..n -> 1..Len(exps)] : n \in 1..Len(exps)} :
        /\ c[1] = start
        /\ \A k \in 1..(Len(c) - 1) :
              HasOuterExport(exps, c[k]) /\ c[k + 1] = exps[c[k]].OuterIndex
        /\ \A k, l \in 1..Len(c) : k # l => c[k] # c[l]
        /\ ~HasOuterExport(exps, c[Len(c)])}

\* the names the walk keeps
KeptName(name) ==
    ~StartsWith(name, S_ExecuteUbergraph) /\ ~StartsWith(name, S_Default__)

\* the names along a chain from outermost to innermost, the synthetic ones
\* left out, joined by '.'
QualifiedName(exps, c) ==
    Join(SelectSeq([k \in 1..Len(c) |-> exps[c[Len(c) + 1 - k]].ObjectName],
                   KeptName), <<46>>)

\* C22: for an export whose outer chain is acyclic, buildFullExportName
\* returns the object names along the chain from outermost to innermost
\* joined by '.', without the names that start with "ExecuteUbergraph" or
\* "Default__"; the chain ends at the first outer reference that is zero,
\* negative or out of range of the export table.
C22_QualifiedName ==
    xres.full.st # "none" =>
        \A c \in ChainsFrom(xref.exports, xref.v + 1) :
            /\ xres.full.st = "ok"
            /\ xres.full.v = QualifiedName(xref.exports, c)

\* a chain of three records whose middle name is synthetic: "Foo.Bar"
C22_Witness ==
    /\ xres.full.st = "ok"
    /\ xref.v = 2
    /\ ChainsFrom(xref.exports, 3) = {<<3, 2, 1>>}
    /\ xref.exports[2].ObjectName = N_Default__Foo
    /\ xres.full.v = N_Foo \o <<46>> \o N_Bar

\* a walk that ends at a reference past the table, after two names
C22_WitnessBeyond ==
    /\ xres.full.st = "ok"
    /\ xref.v = 0
    /\ ChainsFrom(xref.exports, 1) = {<<1, 3>>}
    /\ xref.exports[3].OuterIndex = 4
    /\ xres.full.v = N_Bar \o <<46>> \o N_Foo

-----------------------------------------------------------------------------
(* Arrays of an element type readArray does not know (C23).                *)

\* the last value read was an array whose element type has no case
UnknownArrayRead ==
    /\ pval.has
    /\ pval.tag.Type = T_ArrayProperty
    /\ pval.tag.InnerType \notin ArrayInnerTypes
    /\ InBuf(pbuf, pval.start, 4)

\* the array is empty, the cursor is right after the count, and the decode
\* loop goes on to the next tag
EmptyAndContinues ==
    UnknownArrayRead =>
        /\ pval.r.st = "ok"
        /\ pval.r.v = VArr(<<>>)
        /\ pval.r.off = pval.start + 4
        /\ pstate # "Hung"
        /\ Len(porder) >= 1
        /\ porder[Len(porder)].at = pval.tag.at
        /\ ObjHas(pprops, pval.tag.Name)

\* C23 (as stated): for an array whose element type is not recognised the
\* result is an empty list, no byte after the 4-byte count is consumed, the
\* enclosing decode goes on, and the element loop stops at the first
\* unrecognised element instead of going on for the remaining count.
C23_StopsAtFirstElement ==
    /\ EmptyAndContinues
    /\ UnknownArrayRead => pval.unknown <= 1

\* C23 (result): the result is an empty list, the cursor is right after the
\* count and the enclosing decode goes on; the default case is reached once
\* for every element the count announces.
C23_EmptyList ==
    /\ EmptyAndContinues
    /\ UnknownArrayRead => pval.unknown = Max(CountRead, 0)

\* an array of Int64Property elements with count 2 was read as empty after
\* two passes through the default case, and the next property was decoded
C23_Witness ==
    /\ UnknownArrayRead
    /\ given.kind = "unkarray"
    /\ given.stream[1].val = <<<<"i32", 2>>>>
    /\ pval.tag.InnerType = T_Int64Property
    /\ pval.unknown = 2
    /\ pval.r.v = VArr(<<>>)
    /\ pstate = "ReadValue"
    /\ ptag.Name = N_Foo

-----------------------------------------------------------------------------
(* Reading the import table (C24, C25).                                    *)

\* the most entries an import table is written with
MaxImports == 3

\* "/Engine/EditorBlueprintResources/StandardMacros"
N_StandardMacrosPath ==
    <<47>> \o S_Engine \o <<47>> \o S_EditorBlueprintResources \o <<47>>
    \o S_StandardMacros
\* "WBP_Main_C"
N_WBP_Main_C == N_WBP_Main \o S__C

\* the name table of the import tables; indexes are zero-based:
\*  0 None, 1 /Script/UMG, 2 Class, 3 the StandardMacros path,
\*  4 /Script/Engine, 5 CanvasPanel, 6 Blueprint, 7 WBP_Main_C, 8 Package,
\*  9 Foo, 10 Bar
ImportNames ==
    <<S_None, S_ScriptUMG, S_Class, N_StandardMacrosPath, S_ScriptEngine,
      S_CanvasPanel, S_Blueprint, N_WBP_Main_C, S_Package, N_Foo, N_Bar>>

\* owning packages as name references (index, instance): /Script/UMG,
\* Class, None_3, the StandardMacros path, /Script/Engine, Foo
ImportPackages == <<<<1, 0>>, <<2, 0>>, <<0, 4>>, <<3, 0>>, <<4, 0>>, <<9, 0>>>>

\* classes as name references: CanvasPanel, Class, Blueprint, WBP_Main_C,
\* None_2, Package
ImportClasses == <<<<5, 0>>, <<2, 0>>, <<6, 0>>, <<7, 0>>, <<0, 3>>, <<8, 0>>>>

Pick(list, k) == list[((k - 1) % Len(list)) + 1]

\* entry k (1-based) of the table of a case: the packages and classes are
\* taken in turn from a and b on, the outer is -k, the object is Foo or
\* Bar with instance k - 1, and the two fields of the later versions hold
\* 255 and -1
ImportEntryTokens(c, k) ==
    <<<<"name", Pick(ImportPackages, c.a + k)[1], Pick(ImportPackages, c.a + k)[2]>>,
      <<"name", Pick(ImportClasses, c.b + k)[1], Pick(ImportClasses, c.b + k)[2]>>,
      <<"i32", -k>>,
      <<"name", 9 + (k % 2), k - 1>>>>
    \o (IF c.ver >= 508 THEN <<<<"i32", 255>>, <<"i32", -1>>>> ELSE <<>>)

RECURSIVE ImportTableBytes(_, _)
ImportTableBytes(c, k) ==
    IF k > c.n THEN <<>>
    ELSE EncTokens(ImportEntryTokens(c, k), c.le) \o ImportTableBytes(c, k + 1)

\* the file of a case: seven bytes, the table, forty bytes that belong to
\* something else; cut bytes are missing at the end
ImportFile(c) ==
    With(<<9, 8, 7, 6, 5, 4, 3>> \o ImportTableBytes(c, 1)
         \o [i \in 1..40 |-> (i * 17) % 256],
         LAMBDA all : SubSeq(all, 1, Len(all) - c.cut))

\* n entries written, the count the summary declares, the object version,
\* the byte order
ImportCases ==
    {[n |-> n, count |-> count, ver |-> ver, le |-> le, a |-> a, b |-> b,
      cut |-> cut] :
        n \in 0..MaxImports, count \in 0..(MaxImports + 1) \cup {-1},
        ver \in {507, 508}, le \in BOOLEAN,
        a \in 1..Len(ImportPackages), b \in 1..Len(ImportClasses),
        cut \in {0, 41}}

\* the parser after readNameTable, about to read the import table
InitImports ==
    /\ given \in {c \in ImportCases :
                     /\ c.count \in {c.n, c.n + 1, -1}
                     /\ c.cut = 41 => c.count = c.n /\ c.n > 0 /\ c.a = c.b}
    /\ buffer = ImportFile(given)
    /\ offset = 7 + Len(ImportTableBytes(given, 1))
    /\ useLittleEndian = given.le
    /\ summary = [null |-> FALSE,
                  f |-> [ImportOffset |-> 7, ImportCount |-> given.count,
                         FileVersionUE4 |-> given.ver]]
    /\ nameMap = ImportNames
    /\ imports = <<>>
    /\ exports = <<>>
    /\ ppc = "imports"
    /\ perr = ""
    /\ packageName = <<>>
    /\ expI = 0
    /\ utxt = VUndef
    /\ emitted = <<>>
    /\ parseRet = VUndef
    /\ convRet = "none"
    /\ outFile = NoFile
    /\ WriterIdle
    /\ PropIdle
    /\ NameIdle

NextImports == ReadImportTable

SpecImports == InitImports /\ [][NextImports]_vars

\* the bytes of an entry: three name references and a cross reference,
\* and two more 32-bit fields from object version 508 on
EntryBytes == IF summary.f.FileVersionUE4 < 508 THEN 28 ELSE 36

\* where entry i (0-based) starts
EntryStart(i) == summary.f.ImportOffset + i * EntryBytes

\* the name reference at off, resolved
NameReadAt(off) == FNameAt(buffer, off, useLittleEndian, nameMap)

\* C24: the import table is read with a fixed stride, 28 bytes below
\* object version 508 and 36 bytes from 508 on: ImportCount entries are
\* produced (none for a count below 1), entry i is the one read at
\* ImportOffset + i * stride, and the cursor ends after the last one.
C24_FixedStride ==
    ppc = "exports" =>
        /\ Len(imports) = Max(summary.f.ImportCount, 0)
        /\ offset = EntryStart(Len(imports))
        /\ \A i \in 0..(Len(imports) - 1) :
              /\ imports[i + 1].OuterIndex
                    = Int32At(buffer, EntryStart(i) + 16, useLittleEndian)
              /\ imports[i + 1].ObjectName = NameReadAt(EntryStart(i) + 20)

\* three entries of 36 bytes have been read
C24_Witness ==
    /\ ppc = "exports"
    /\ given.ver = 508
    /\ Len(imports) = 3
    /\ offset = 7 + 3 * 36
    /\ imports[3].OuterIndex = -3
    /\ imports[2].ObjectName = N_Foo \o <<95, 48>>

\* three entries of 28 bytes and the bytes after them taken for a fourth
C24_WitnessOld ==
    /\ ppc = "exports"
    /\ given.ver = 507
    /\ given.n = 3
    /\ Len(imports) = 4
    /\ offset = 7 + 4 * 28

\* the import as its entry holds it
AsRead(i) ==
    [ClassPackage |-> NameReadAt(EntryStart(i)),
     ClassName |-> NameReadAt(EntryStart(i) + 8),
     OuterIndex |-> Int32At(buffer, EntryStart(i) + 16, useLittleEndian),
     ObjectName |-> NameReadAt(EntryStart(i) + 20)]

\* the package string matches a known-bad pattern
MangledPackage(package) ==
    \/ StartsWith(package, S_None_)
    \/ Includes(package, S_StandardMacros)
    \/ Includes(package, S_EditorBlueprintResources)

\* neither the package nor the class of the entry is recognizably mangled
Unmangled(i) ==
    /\ ~MangledPackage(AsRead(i).ClassPackage)
    /\ ~StartsWith(AsRead(i).ClassName, S_None_)

\* C25 (as stated): an import whose package matches no known-bad pattern
\* and whose class does not start with "None_" is stored with its package,
\* class, outer index and object name exactly as read.
C25_UnmangledAsRead ==
    \A i \in 0..(Len(imports) - 1) : Unmangled(i) => imports[i + 1] = AsRead(i)

\* C25 (what is kept): the outer index and the object name of every import
\* are stored as read; the package is stored as read unless it is mangled
\* or it is "Class" with a UMG widget class; the class is stored as read
\* when it holds no underscore.
C25_KeptFields ==
    \A i \in 0..(Len(imports) - 1) :
        /\ imports[i + 1].OuterIndex = AsRead(i).OuterIndex
        /\ imports[i + 1].ObjectName = AsRead(i).ObjectName
        /\ (/\ ~MangledPackage(AsRead(i).ClassPackage)
            /\ ~(/\ AsRead(i).ClassPackage = S_Class
                 /\ InList(umgClassesImport, AsRead(i).ClassName)))
              => imports[i + 1].ClassPackage = AsRead(i).ClassPackage
        /\ ~Includes(AsRead(i).ClassName, <<95>>)
              => imports[i + 1].ClassName = AsRead(i).ClassName

\* C25 (class): a class that starts with "None_" is stored as read, and a
\* class with an underscore after another first part is cut at the
\* underscore.
C25_ClassCut ==
    \A i \in 0..(Len(imports) - 1) :
        /\ StartsWith(AsRead(i).ClassName, S_None_)
              => imports[i + 1].ClassName = AsRead(i).ClassName
        /\ AsRead(i).ClassName = N_WBP_Main_C
              => imports[i + 1].ClassName = <<87, 66, 80>>

\* an import of class WBP_Main_C in package /Script/Engine was stored with
\* class WBP
C25_WitnessClass ==
    /\ Len(imports) >= 1
    /\ AsRead(0).ClassPackage = S_ScriptEngine
    /\ AsRead(0).ClassName = N_WBP_Main_C
    /\ imports[1].ClassName = <<87, 66, 80>>

\* an import of class CanvasPanel in package Class was stored with package
\* /Script/UMG
C25_WitnessPackage ==
    /\ Len(imports) >= 1
    /\ AsRead(0).ClassPackage = S_Class
    /\ AsRead(0).ClassName = S_CanvasPanel
    /\ imports[1].ClassPackage = S_ScriptUMG

-----------------------------------------------------------------------------
(* Termination of the walk up the outer chain (C26).                       *)

\* The walk's next record is a function of the current one and the table
\* never changes, so a walk that comes back to a record it has visited
\* goes round for ever: the loop `while (current)` has no other exit than
\* an outer reference that is zero, negative or out of range.

\* C26 (as stated): buildFullExportName returns for every export table,
\* also when the outer references of exports form a cycle or an export is
\* its own outer.
C26_WalkReturns == xres.full.st # "diverges"

\* C26 (when): the walk returns exactly when the chain from the export
\* visits no record twice.
C26_ReturnsIffAcyclic ==
    xres.full.st # "none" =>
        (xres.full.st = "ok" <=> ChainsFrom(xref.exports, xref.v + 1) # {})

\* an export that is its own outer: the walk never returns
C26_WitnessSelf ==
    /\ xres.full.st = "diverges"
    /\ xref.exports[xref.v + 1].OuterIndex = xref.v + 1

\* a ring of three exports
C26_WitnessRing ==
    /\ xres.full.st = "diverges"
    /\ Len(xref.exports) = 3
    /\ \A k \in 1..3 : xref.exports[k].OuterIndex = (k % 3) + 1

-----------------------------------------------------------------------------
(* The keys of the document's export map (C27).                            *)

\* the export map of the document
ExportMap == Get(utxt, K_Exports).kv

\* convertToUTXT has returned the document
Converted == ppc \in {"parsed", "done"} /\ parseRet # VUndef

\* the last export emitted under a key
LastUnder(key) ==
    CHOOSE k \in 1..Len(emitted) :
        /\ emitted[k].key = key
        /\ \A l \in 1..Len(emitted) : emitted[l].key = key => l <= k

\* C27 (as stated): after convertToUTXT the export map has one entry for
\* each record of the export table: no two exports were filed under the
\* same key, and every export's payload is in the map.
C27_OneEntryPerExport ==
    Converted =>
        /\ Len(ExportMap) = Len(exports)
        /\ \A k, l \in 1..Len(emitted) : k # l => emitted[k].key # emitted[l].key
        /\ \A k \in 1..Len(emitted) :
              Get(Get(utxt, K_Exports), emitted[k].key) = emitted[k].data

\* C27 (what the map holds): the map has one entry for each distinct key,
\* and under a key it holds the payload of the last export filed under it.
C27_LastExportWins ==
    Converted =>
        /\ Len(ExportMap) = Cardinality({emitted[k].key : k \in 1..Len(emitted)})
        /\ \A i \in 1..Len(ExportMap) :
              ExportMap[i].v = emitted[LastUnder(ExportMap[i].k)].data

\* two exports named Foo were converted: the map has one entry, with the
\* payload of the second
C27_WitnessTwins ==
    /\ Converted
    /\ Len(exports) = 2
    /\ Len(emitted) = 2
    /\ emitted[1].key = emitted[2].key
    /\ emitted[1].data # emitted[2].data
    /\ Len(ExportMap) = 1
    /\ ExportMap[1].v = emitted[2].data

-----------------------------------------------------------------------------
(* The name table of the file written and the references into it (C28).    *)

\* NameCount as it stands in the header of the file written: after the
\* tag, five int32, the total header size, the folder name "None" and the
\* package flags
HeaderNameCount == Int32At(wout.bytes, 41, TRUE)

\* the number of entries writeNameTable serialised
NamesSerialised == Len(wlog.names)

\* the name indexes in the import records of the file written: the
\* package, the class and the object name of each 28-byte record
ImportNameIndexes ==
    {Int32At(wout.bytes, wtab[2] + 28 * (k - 1) + d, TRUE) :
        k \in 1..Len(wimports), d \in {0, 8, 20}}

\* the name index in each export record
ExportNameIndexes ==
    {Int32At(wout.bytes, EntryAt(k) + 16, TRUE) : k \in 1..Len(wlog.exports)}

\* the name index of each reference to None written as an export's data
TerminatorIndexes ==
    {Int32At(wout.bytes, wlog.exports[k].SerialOffset, TRUE) :
        k \in {j \in 1..Len(wlog.exports) :
                  /\ ~PropertiesBranch(ExportPairs(wdoc)[j].v)
                  /\ Holding(ExportPairs(wdoc)[j].v) = {}}}

\* C28 (as stated): in the file written the NameCount of the header is the
\* number of entries writeNameTable serialised, and every name index in an
\* import record, an export record or a terminator is below that number:
\* no name joins the name map after the name table has been serialised.
C28_NameTableCovers ==
    wout.exists =>
        /\ HeaderNameCount = NamesSerialised
        /\ \A index \in ImportNameIndexes \cup ExportNameIndexes
                        \cup TerminatorIndexes :
              index >= 0 /\ index < NamesSerialised
        /\ wnames = wlog.names

\* C28 (what is written): the NameCount of the header is the size of the
\* name map at the end of write(), every index written is below it, and
\* the entries serialised are the first ones of that map; the export
\* names and None are in the table serialised.
C28_HeaderCountsLateNames ==
    wout.exists =>
        /\ HeaderNameCount = Len(wnames)
        /\ \A index \in ImportNameIndexes \cup ExportNameIndexes
                        \cup TerminatorIndexes :
              index >= 0 /\ index < Len(wnames)
        /\ SubSeq(wnames, 1, NamesSerialised) = wlog.names
        /\ \A index \in ExportNameIndexes \cup TerminatorIndexes :
              index < NamesSerialised

\* C28 (always): every file written has an import record whose name index
\* is outside the table serialised, since the object names of two of the
\* four common imports are in no name set.
C28_AlwaysLate ==
    wout.exists =>
        /\ HeaderNameCount > NamesSerialised
        /\ \E index \in ImportNameIndexes : index >= NamesSerialised
        /\ ~InList(wlog.names, S_SceneComponent)
        /\ InList(wnames, S_SceneComponent)

-----------------------------------------------------------------------------
(* The class index of an export record and the import table (C29).         *)

\* the ClassIndex that stands in entry k of the export table written
ClassIndexWritten(k) == Int32At(wout.bytes, EntryAt(k), TRUE)

\* the position (1-based) of the key buildImportMap holds for the class
\* path of an export
OwnEntry(exportData) ==
    CHOOSE i \in 1..Len(wimports) : wimports[i] = classPathOf(exportData)

\* the first position whose key contains the class path
FirstContaining(exportData) ==
    CHOOSE i \in 1..Len(wimports) :
        /\ Includes(wimports[i], classPathOf(exportData))
        /\ \A j \in 1..(i - 1) : ~Includes(wimports[j], classPathOf(exportData))

\* the three names of record k (1-based) of the import table written,
\* resolved in the name map
ImportRecordNames(k) ==
    <<wnames[Int32At(wout.bytes, wtab[2] + 28 * (k - 1), TRUE) + 1],
      wnames[Int32At(wout.bytes, wtab[2] + 28 * (k - 1) + 8, TRUE) + 1],
      wnames[Int32At(wout.bytes, wtab[2] + 28 * (k - 1) + 20, TRUE) + 1]>>

\* record k of the import table is the one writeImportTable makes of the
\* k-th key of the import map
RecordsInMapOrder ==
    \A k \in 1..Len(wimports) :
        ImportRecordNames(k) =
            <<PartOr(Split(wimports[k], 46), 1, S_CoreUObject),
              PartOr(Split(wimports[k], 46), 2, S_Class),
              PartOr(Split(wimports[k], 46), 3, S_Object)>>

\* the exports (1-based positions) that have a __Class
ClassedExports ==
    {k \in 1..Len(ExportPairs(wdoc)) :
        JsTruthy(Get(ExportPairs(wdoc)[k].v, K___Class))}

\* C29 (as stated): for every export that has a __Class, the ClassIndex of
\* its export record is the negative index of the import entry
\* buildImportMap made for that export's own class path, and index -k is
\* the k-th record of the import table.
C29_ClassIndexOwnEntry ==
    wout.exists =>
        /\ RecordsInMapOrder
        /\ \A k \in ClassedExports :
              /\ InList(wimports, classPathOf(ExportPairs(wdoc)[k].v))
              /\ ClassIndexWritten(k) = -OwnEntry(ExportPairs(wdoc)[k].v)

\* C29 (what is written): the ClassIndex is the negative index of the
\* first key of the import map that contains the class path, which is at
\* or before the export's own entry; index -k is the k-th record.
C29_FirstContainingEntry ==
    wout.exists =>
        /\ RecordsInMapOrder
        /\ \A k \in ClassedExports :
              /\ InList(wimports, classPathOf(ExportPairs(wdoc)[k].v))
              /\ ClassIndexWritten(k) = -FirstContaining(ExportPairs(wdoc)[k].v)
              /\ FirstContaining(ExportPairs(wdoc)[k].v)
                    <= OwnEntry(ExportPairs(wdoc)[k].v)

\* a file is written in which an export of class UMG.CanvasPanel follows
\* one of class UMG.CanvasPanelSlot and carries the index of the latter
C29_WitnessPrefix ==
    /\ wout.exists
    /\ \E k \in ClassedExports :
          /\ ClassIndexWritten(k) = -5
          /\ OwnEntry(ExportPairs(wdoc)[k].v) = 6

-----------------------------------------------------------------------------
(* The two decoders of a name reference side by side (C30): the parser's   *)
(* readFName and the serializer's readName on the same 8 bytes and the     *)
(* same name table.                                                        *)

\* both decoders have answered
BothDecoded == nres.fname.st = "ok" /\ nres.name.st = "ok"

\* C30 (as stated): for every name table and every (index, instance) pair
\* readFName and readName return the same string, also when the index is
\* outside the table.
C30_DecodersAgree ==
    BothDecoded => nres.fname.v = nres.name.v

\* C30 (what is decoded): the two agree when the index is inside the table
\* or the instance is not positive; for an index outside the table and an
\* instance k > 0 readFName gives "None_" and k - 1, readName gives "None".
C30_AgreeInsideTable ==
    BothDecoded =>
        IF InTable \/ nref.instance <= 0
        THEN nres.fname.v = nres.name.v
        ELSE /\ nres.fname.v = S_None \o <<95>> \o Dec(nref.instance - 1)
             /\ nres.name.v = S_None

\* both decoders have answered for an index outside the table with a
\* positive instance
C30_WitnessOutside ==
    /\ BothDecoded
    /\ ~InTable
    /\ nref.instance = 2
    /\ nres.fname.v = S_None \o <<95, 49>>

=============================================================================
